---- MODULE Spec2Model ----
(***************************************************************************)
(* Image acquisition and rootfs materialization pipeline of                *)
(* android_docker/create_rootfs_tar.py: DockerRegistryClient (probe,       *)
(* token, manifest and blob requests made with curl) and                   *)
(* DockerImageToRootFS (manifest-list resolution, blob store, layer        *)
(* extraction with the tarfile reader and the external tar utility,        *)
(* config sidecar, archive creation).                                      *)
(***************************************************************************)
EXTENDS Integers, Sequences, FiniteSets, TLC

(***************************************************************************)
(* Bounds of the model.                                                    *)
(***************************************************************************)
MaxLayers == 2
MaxEntries == 2
MaxRefLen == 5

(***************************************************************************)
(* Archive member names are character sequences, so that the name tests of *)
(* the extraction filter are computed on the characters as the code does.  *)
(***************************************************************************)
nA == <<"a">>
nB == <<"b">>
nH == <<"h">>
nG == <<"g">>
nQ == <<"q">>
nF == <<"f">>
nC == <<"c">>
nAbs == <<"/", "e">>
nUp == <<".", ".", "/", "u">>
nDots == <<"x", ".", ".", "y">>
nTmp == <<"t", "m", "p">>
nRun == <<"r", "u", "n">>
nSys == <<"s", "y", "s">>
nHostN == <<"/", "n">>

\* member.name.startswith('/')
StartsWithSlash(name) == Len(name) > 0 /\ name[1] = "/"

\* '..' in member.name   (a substring test, not a path-segment test)
ContainsDotDot(name) ==
    \E i \in 1..(Len(name) - 1) : name[i] = "." /\ name[i + 1] = "."

\* a '..' path segment: what the tar utility refuses to extract
HasDotDotSegment(name) ==
    \E i \in 1..(Len(name) - 1) :
        /\ name[i] = "." /\ name[i + 1] = "."
        /\ (i = 1 \/ name[i - 1] = "/")
        /\ (i + 1 = Len(name) \/ name[i + 2] = "/")

\* the tar utility removes a leading '/' from member names
StripLeadingSlash(name) ==
    IF StartsWithSlash(name) THEN SubSeq(name, 2, Len(name)) ELSE name

\* str.rfind(c), counted from 1, with 0 for "not found"
RFind(str, c) ==
    LET I == { i \in 1..Len(str) : str[i] = c }
    IN  IF I = {} THEN 0 ELSE CHOOSE i \in I : \A j \in I : j <= i

\* os.path.join(rootfs_dir, name): an absolute name replaces the rootfs
\* prefix, and a leading '..' segment climbs out of it.
JoinRootfs(name) ==
    IF StartsWithSlash(name) \/ HasDotDotSegment(name)
    THEN [root |-> "host", path |-> name]
    ELSE [root |-> "rootfs", path |-> name]

(***************************************************************************)
(* Layer archives served by the registry, by digest.  A member has the     *)
(* tarfile type REGTYPE ("reg"), LNKTYPE ("lnk"), SYMTYPE ("sym", with the  *)
(* link target named by data), FIFOTYPE ("fifo") or CHRTYPE ("chr").       *)
(* fmt: "std" is a tar/gzip archive both readers open,                     *)
(* "alt" is a compression only some builds of a reader support, "bad" is   *)
(* not an archive at all.                                                  *)
(***************************************************************************)
Member(name, type, data, linkname) ==
    [name |-> name, type |-> type, data |-> data, linkname |-> linkname]

NoArchive == [fmt |-> "bad", members |-> <<>>]

Archive1 == [fmt |-> "std",
             members |-> << Member(nA, "reg", "1a", <<>>),
                            Member(nB, "reg", "1b", <<>>),
                            Member(nTmp, "reg", "1t", <<>>),
                            Member(nRun, "sym", "/n", nHostN),
                            Member(nSys, "sym", "a", nA) >>]
Archive2 == [fmt |-> "alt",
             members |-> << Member(nA, "reg", "2a", <<>>),
                            Member(nH, "lnk", "", nA),
                            Member(nG, "lnk", "", nQ) >>]
Archive3 == [fmt |-> "std",
             members |-> << Member(nF, "fifo", "", <<>>),
                            Member(nC, "chr", "", <<>>),
                            Member(nAbs, "reg", "3e", <<>>),
                            Member(nUp, "reg", "3u", <<>>),
                            Member(nDots, "reg", "3x", <<>>) >>]

Digest(hex) == [alg |-> "sha256", hex |-> hex]
NoDigest == [alg |-> "none", hex |-> "none"]

LayerHexes == {"l1", "l2", "l3"}
ConfigHex == "c1"

RegistryArchive(hex) ==
    CASE hex = "l1" -> Archive1
      [] hex = "l2" -> Archive2
      [] hex = "l3" -> Archive3
      [] OTHER -> NoArchive

(***************************************************************************)
(* Filesystem: a function from locations to entries.  Every effect of an   *)
(* extraction is recorded, inside the rootfs or on the host.               *)
(***************************************************************************)
Put(f, k, v) == [x \in (DOMAIN f) \cup {k} |-> IF x = k THEN v ELSE f[x]]

EmptyFs == [x \in {} |-> [kind |-> "file", data |-> ""]]

FsEntry(kind, data) == [kind |-> kind, data |-> data]

(***************************************************************************)
(* In-process reader: _safe_extract_tar and its helpers.                   *)
(***************************************************************************)
\* member.isdev() or member.isfifo()
IsDevOrFifo(m) == m.type \in {"chr", "blk", "fifo"}

\* extract_filter: TRUE when the member is returned, FALSE when it is None
ExtractFilter(m) ==
    /\ ~IsDevOrFifo(m)
    /\ ~(StartsWithSlash(m.name) \/ ContainsDotDot(m.name))

\* _handle_hardlink: copy the link target when it exists, else skip
HandleHardlink(f, m) ==
    LET target_path == JoinRootfs(m.name)
        link_target_path == JoinRootfs(m.linkname)
    IN  IF link_target_path \in DOMAIN f
        THEN Put(f, target_path, FsEntry("file", f[link_target_path].data))
        ELSE f

\* tar.extract(filtered_member, rootfs_dir)
TarfileExtract(f, m) ==
    Put(f, JoinRootfs(m.name),
        IF m.type = "sym" THEN FsEntry("symlink", m.data)
        ELSE FsEntry("file", m.data))

RECURSIVE SafeExtractTar(_, _, _)
SafeExtractTar(members, i, f) ==
    IF i > Len(members) THEN f
    ELSE LET m == members[i]
         IN  IF ~ExtractFilter(m)
             THEN SafeExtractTar(members, i + 1, f)
             ELSE IF m.type = "lnk"
             THEN SafeExtractTar(members, i + 1, HandleHardlink(f, m))
             ELSE SafeExtractTar(members, i + 1, TarfileExtract(f, m))

(***************************************************************************)
(* External tar utility, run by _extract_layer_with_tar.  The command      *)
(* passes the whole archive to tar: no member is filtered by the caller.   *)
(* tar strips a leading '/', refuses a member with a '..' segment, creates *)
(* FIFOs, creates device nodes when privileged, and extracts a hard link   *)
(* member with link(2).  env: reads (tar can open the archive), privileged,*)
(* linkOK (the filesystem permits link(2)), failCode (the exit status of   *)
(* the utility after an error: 2 for GNU tar, 1 for others).               *)
(***************************************************************************)
StdFlags(isAndroid, is_first_layer) ==
    IF isAndroid
    THEN {"--no-same-owner", "--no-same-permissions", "--dereference"}
         \cup (IF ~is_first_layer THEN {"--overwrite"} ELSE {})
    ELSE {"--no-same-owner", "--no-same-permissions"}

FallbackFlags ==
    {"--dereference", "--no-same-owner", "--no-same-permissions",
     "--skip-old-files"}

TarMember(st, m, flags, env) ==
    IF HasDotDotSegment(m.name) THEN [fs |-> st.fs, err |-> TRUE]
    ELSE LET loc == [root |-> "rootfs", path |-> StripLeadingSlash(m.name)]
             tgt == [root |-> "rootfs", path |-> StripLeadingSlash(m.linkname)]
         IN  IF loc \in DOMAIN st.fs /\ "--skip-old-files" \in flags
             THEN st
             ELSE CASE m.type = "reg" ->
                         [fs |-> Put(st.fs, loc, FsEntry("file", m.data)),
                          err |-> st.err]
                    [] m.type = "sym" ->
                         [fs |-> Put(st.fs, loc, FsEntry("symlink", m.data)),
                          err |-> st.err]
                    [] m.type = "fifo" ->
                         [fs |-> Put(st.fs, loc, FsEntry("fifo", "")),
                          err |-> st.err]
                    [] m.type \in {"chr", "blk"} ->
                         IF env.privileged
                         THEN [fs |-> Put(st.fs, loc, FsEntry(m.type, "")),
                               err |-> st.err]
                         ELSE [fs |-> st.fs, err |-> TRUE]
                    [] m.type = "lnk" ->
                         IF tgt \in DOMAIN st.fs /\ env.linkOK
                         THEN [fs |-> Put(st.fs, loc,
                                          FsEntry("hardlink", st.fs[tgt].data)),
                               err |-> st.err]
                         ELSE [fs |-> st.fs, err |-> TRUE]
                    [] OTHER -> st

RECURSIVE TarMembers(_, _, _, _, _)
TarMembers(members, i, st, flags, env) ==
    IF i > Len(members) THEN st
    ELSE TarMembers(members, i + 1, TarMember(st, members[i], flags, env),
                    flags, env)

\* one subprocess run of tar: the resulting tree and the exit status
TarRun(archive, f, flags, env) ==
    IF ~env.reads THEN [fs |-> f, rc |-> env.failCode]
    ELSE LET st == TarMembers(archive.members, 1, [fs |-> f, err |-> FALSE],
                              flags, env)
         IN  [fs |-> st.fs, rc |-> IF st.err THEN env.failCode ELSE 0]

\* one tar command as _extract_layer_with_tar ran it
Ran(flags, r) == [flags |-> flags, rc |-> r.rc]

\* _extract_layer_with_tar: raised is TRUE when CalledProcessError leaves
\* it, runs are the tar commands it ran, in order
ExtractLayerWithTarStrict(archive, f, is_first_layer, isAndroid, env) ==
    IF isAndroid /\ is_first_layer
    THEN LET r == TarRun(archive, f, FallbackFlags, env)
         IN  [fs |-> r.fs, raised |-> r.rc # 0,
              runs |-> << Ran(FallbackFlags, r) >>]
    ELSE LET std == StdFlags(isAndroid, is_first_layer)
             r1 == TarRun(archive, f, std, env)
         IN  IF r1.rc = 0
             THEN [fs |-> r1.fs, raised |-> FALSE, runs |-> << Ran(std, r1) >>]
             ELSE LET r2 == TarRun(archive, r1.fs, FallbackFlags, env)
                  IN  [fs |-> r2.fs, raised |-> r2.rc # 0,
                       runs |-> << Ran(std, r1), Ran(FallbackFlags, r2) >>]
ExtractLayerWithTar(archive, f, is_first_layer, isAndroid, env) ==
    IF isAndroid /\ is_first_layer
    THEN LET r == TarRun(archive, f, FallbackFlags, env)
         IN  [fs |-> r.fs, raised |-> r.rc \notin {0, 2},
              runs |-> << Ran(FallbackFlags, r) >>]
    ELSE LET std == StdFlags(isAndroid, is_first_layer)
             r1 == TarRun(archive, f, std, env)
         IN  IF r1.rc = 0
             THEN [fs |-> r1.fs, raised |-> FALSE, runs |-> << Ran(std, r1) >>]
             ELSE LET r2 == TarRun(archive, r1.fs, FallbackFlags, env)
                  IN  [fs |-> r2.fs, raised |-> r2.rc \notin {0, 2},
                       runs |-> << Ran(std, r1), Ran(FallbackFlags, r2) >>]

\* _extract_layer_with_python: raised when tarfile cannot open the archive
ExtractLayerWithPython(archive, f, pyReads) ==
    IF pyReads
    THEN [fs |-> SafeExtractTar(archive.members, 1, f), raised |-> FALSE]
    ELSE [fs |-> f, raised |-> TRUE]

\* _extract_layer.  extracted records whether some reader opened the archive
\* and processed its members.
ExtractLayer(archive, f, is_first_layer, isAndroid, pyReads, env) ==
    IF isAndroid
    THEN LET t == ExtractLayerWithTar(archive, f, is_first_layer, isAndroid, env)
         IN  IF ~t.raised
             THEN [fs |-> t.fs, raised |-> FALSE, extracted |-> env.reads]
             ELSE LET p == ExtractLayerWithPython(archive, t.fs, pyReads)
                  IN  [fs |-> p.fs, raised |-> FALSE, extracted |-> ~p.raised]
    ELSE LET p == ExtractLayerWithPython(archive, f, pyReads)
         IN  IF ~p.raised
             THEN [fs |-> p.fs, raised |-> FALSE, extracted |-> TRUE]
             ELSE LET t == ExtractLayerWithTar(archive, p.fs, is_first_layer,
                                               isAndroid, env)
                  IN  [fs |-> t.fs, raised |-> t.raised,
                       extracted |-> env.reads /\ ~t.raised]

(***************************************************************************)
(* Registry documents.  A manifest names its layers and config by digest;  *)
(* a manifest list names one manifest per platform.  An absent             *)
(* platform.architecture or platform.os key is written "none".             *)
(***************************************************************************)
DockerManifestV2 == "application/vnd.docker.distribution.manifest.v2+json"
DockerManifestList == "application/vnd.docker.distribution.manifest.list.v2+json"
OciManifest == "application/vnd.oci.image.manifest.v1+json"
OciIndex == "application/vnd.oci.image.index.v1+json"
ContentTypes == {DockerManifestV2, DockerManifestList, OciManifest, OciIndex, ""}

DockerLayerGzip == "application/vnd.docker.image.rootfs.diff.tar.gzip"
DockerLayerTar == "application/vnd.docker.image.rootfs.diff.tar"
OciLayerGzip == "application/vnd.oci.image.layer.v1.tar+gzip"
OciLayerTar == "application/vnd.oci.image.layer.v1.tar"
DockerConfig == "application/vnd.docker.container.image.v1+json"
OciConfig == "application/vnd.oci.image.config.v1+json"

\* the mediaType key of the descriptor the registry's manifests carry for a
\* layer or config digest
LayerMediaType(hex) ==
    CASE hex = "l1" -> DockerLayerGzip
      [] hex = "l2" -> DockerLayerTar
      [] OTHER -> OciLayerGzip

\* a manifest document: mediaType is its own mediaType key ("none" when the
\* key is absent), layerTypes and configType the mediaType keys of its
\* layer and config descriptors
ManifestDoc(hs, c, mt) ==
    [kind |-> "manifest", layers |-> [i \in 1..Len(hs) |-> Digest(hs[i])],
     config |-> c, entries |-> <<>>, mediaType |-> mt,
     layerTypes |-> [i \in 1..Len(hs) |-> LayerMediaType(hs[i])],
     configType |-> IF c = NoDigest THEN "none" ELSE DockerConfig]

\* a manifest-list document
ListDoc(entries, mt) ==
    [kind |-> "list", layers |-> <<>>, config |-> NoDigest,
     entries |-> entries, mediaType |-> mt, layerTypes |-> <<>>,
     configType |-> "none"]

NoDoc == [kind |-> "none", layers |-> <<>>, config |-> NoDigest,
          entries |-> <<>>, mediaType |-> "none", layerTypes |-> <<>>,
          configType |-> "none"]

Archs == {"amd64", "arm64"}

PlatformMenu ==
    { [arch |-> "amd64", os |-> "linux"],
      [arch |-> "amd64", os |-> "windows"],
      [arch |-> "amd64", os |-> "none"],
      [arch |-> "arm64", os |-> "linux"],
      [arch |-> "none", os |-> "none"] }

SeqsUpTo(S, n) == UNION { [1..k -> S] : k \in 0..n }

EntryHex(i) == CASE i = 1 -> "m1" [] i = 2 -> "m2" [] i = 3 -> "m3"
                 [] OTHER -> "m4"

ListDocs ==
    { ListDoc([i \in 1..Len(ps) |->
                  [arch |-> ps[i].arch, os |-> ps[i].os,
                   digest |-> Digest(EntryHex(i))]], DockerManifestList) :
      ps \in SeqsUpTo(PlatformMenu, MaxEntries) }

ManifestDocs ==
    { ManifestDoc(hs, c, DockerManifestV2) :
      hs \in SeqsUpTo(LayerHexes, MaxLayers),
      c \in {NoDigest, Digest(ConfigHex)} }

\* the mediaType key of a manifest body: a Docker manifest carries the
\* Docker type, an OCI manifest the OCI type or no such key
BodyMediaTypes == {DockerManifestV2, OciManifest, "none"}

\* what the registry may answer to the request by tag: every manifest
\* with the Docker manifest type, one manifest with every content type and
\* every mediaType key, every manifest list with the two list types, and
\* one list with the content types that do not announce a list, and one
\* list whose entry is itself a manifest list
Answer(doc, ct) == [doc |-> doc, content_type |-> ct]

TagResponses ==
    { Answer(d, DockerManifestV2) : d \in ManifestDocs }
    \cup { Answer(ManifestDoc(<< "l1" >>, Digest(ConfigHex), mt), ct) :
             ct \in ContentTypes, mt \in BodyMediaTypes }
    \cup { Answer(d, ct) : d \in ListDocs, ct \in {DockerManifestList, OciIndex} }
    \cup { Answer(ListDoc(<< [arch |-> "amd64", os |-> "linux",
                               digest |-> Digest("m1")] >>,
                           DockerManifestList), ct) :
             ct \in ContentTypes }
    \cup { Answer(ListDoc(<< [arch |-> "amd64", os |-> "linux",
                               digest |-> Digest("m3")] >>,
                           DockerManifestList), DockerManifestList) }

\* what the registry holds under the digest of a manifest-list entry
RegistryManifest(hex) ==
    CASE hex = "m1" ->
           [doc |-> ManifestDoc(<< "l1" >>, Digest(ConfigHex), DockerManifestV2),
            content_type |-> DockerManifestV2]
      [] hex = "m2" ->
           [doc |-> ManifestDoc(<< "l2", "l1" >>, NoDigest, "none"),
            content_type |-> OciManifest]
      [] hex = "m3" ->
           [doc |-> ListDoc(<< [arch |-> "amd64", os |-> "linux",
                                digest |-> Digest("m1")] >>, OciIndex),
            content_type |-> OciIndex]
      [] OTHER ->
           [doc |-> ManifestDoc(<< "l3" >>, Digest(ConfigHex), DockerManifestV2),
            content_type |-> ""]

\* 'manifest.list' in content_type or 'image.index' in content_type
IsManifestList(content_type) == content_type \in {DockerManifestList, OciIndex}

(***************************************************************************)
(* DockerRegistryClient._make_registry_request.  rsp is what the network   *)
(* answers: probeOK and curlOK (the curl process exits 0), challenge (the  *)
(* WWW-Authenticate header of the probe), token (what the token endpoint   *)
(* yields, "none" for a failure) and status of the final response.         *)
(***************************************************************************)
Tokens == {"t1", "t2"}
Statuses == {200, 401, 404}

LogEntry(kind, ref, auth, accept) ==
    [kind |-> kind, ref |-> ref, auth |-> auth, accept |-> accept]

\* _get_auth_token: a token request is sent for a Bearer challenge only
GetAuthToken(challenge, token) == IF challenge = "bearer" THEN token ELSE "none"

\* variant of MakeRegistryRequest that probes on every call
MakeRegistryRequestAlwaysProbe(at, lg, ref, accept, rsp) ==
    LET lg1 == Append(lg, LogEntry("probe", ref, "none", FALSE))
        asked == rsp.probeOK /\ rsp.challenge = "bearer"
        lg2 == IF asked THEN Append(lg1, LogEntry("token", "realm", "none", FALSE))
               ELSE lg1
        got == IF rsp.probeOK /\ rsp.challenge # "none"
               THEN GetAuthToken(rsp.challenge, rsp.token) ELSE "none"
        at2 == IF got # "none" THEN got ELSE at
        lg3 == IF rsp.probeOK
               THEN Append(lg2, LogEntry("manifest", ref, at2, accept))
               ELSE lg2
    IN  [auth_token |-> at2, log |-> lg3,
         raised |-> ~rsp.probeOK \/ ~rsp.curlOK \/ rsp.status >= 400]

MakeRegistryRequest(at, lg, ref, accept, rsp) ==
    LET probing == at = "none"
        lg1 == IF probing THEN Append(lg, LogEntry("probe", ref, "none", FALSE))
               ELSE lg
        asked == probing /\ rsp.probeOK /\ rsp.challenge = "bearer"
        lg2 == IF asked THEN Append(lg1, LogEntry("token", "realm", "none", FALSE))
               ELSE lg1
        got == IF probing /\ rsp.probeOK /\ rsp.challenge # "none"
               THEN GetAuthToken(rsp.challenge, rsp.token) ELSE "none"
        at2 == IF got # "none" THEN got ELSE at
        sent == ~probing \/ rsp.probeOK
        lg3 == IF sent THEN Append(lg2, LogEntry("manifest", ref, at2, accept))
               ELSE lg2
    IN  [auth_token |-> at2, log |-> lg3,
         raised |-> ~sent \/ ~rsp.curlOK \/ rsp.status >= 400]

Responses ==
    [probeOK : BOOLEAN, challenge : {"none", "bearer", "basic"},
     token : Tokens \cup {"none"}, curlOK : BOOLEAN, status : Statuses]

(***************************************************************************)
(* Blob store entries.                                                     *)
(***************************************************************************)
ArchiveBlob(a) == [kind |-> "archive", arc |-> a, doc |-> NoDoc,
                   normalized |-> FALSE]
ConfigBlob(n) == [kind |-> "config", arc |-> NoArchive, doc |-> NoDoc,
                  normalized |-> n]
ManifestBlob(d) == [kind |-> "manifest", arc |-> NoArchive, doc |-> d,
                    normalized |-> FALSE]
ErrorBody == [kind |-> "errbody", arc |-> NoArchive, doc |-> NoDoc,
              normalized |-> FALSE]

\* what the registry holds under a digest
RegistryBlob(hex) ==
    IF hex \in LayerHexes THEN ArchiveBlob(RegistryArchive(hex))
    ELSE ConfigBlob(FALSE)

\* digest[7:] when the digest starts with 'sha256:', else the digest itself
DigestHash(d) == d.hex

ManifestHex == "mf"

(***************************************************************************)
(* _convert_docker_config_to_oci.  A config object is a function from the  *)
(* keys it has to their values; "null" is the JSON null.                   *)
(***************************************************************************)
ConfigKeys == {"architecture", "os", "config", "rootfs", "history"}
OtherKeys == {"author"}

\* values a key may have in the blob: a value of the image or null
KeyValues(k) ==
    CASE k = "architecture" -> {"arm64", "null"}
      [] k = "os" -> {"windows", "null"}
      [] k = "config" -> {"{Cmd,Env}", "null"}
      [] k = "rootfs" -> {"{layers,[d1]}", "null"}
      [] k = "history" -> {"[h1]", "null"}
      [] OTHER -> {"me"}

EmptyObject == [k \in {} |-> ""]

ConfigObjects ==
    UNION { { c \in [K -> UNION { KeyValues(k) : k \in K }] :
                \A k \in K : c[k] \in KeyValues(k) } :
            K \in SUBSET (ConfigKeys \cup OtherKeys) }

\* if key not in oci_config: oci_config[key] = value
SetDefault(c, k, v) == IF k \notin DOMAIN c THEN Put(c, k, v) ELSE c

\* variant of ConvertDockerConfigToOci that always sets os to 'linux'
ConvertDockerConfigToOciForceOs(docker_config) ==
    LET c1 == SetDefault(docker_config, "architecture", "amd64")
        c2 == Put(c1, "os", "linux")
        c3 == SetDefault(c2, "config", "{}")
        c4 == SetDefault(c3, "rootfs", "{type:layers,diff_ids:[]}")
    IN  SetDefault(c4, "history", "[]")

ConvertDockerConfigToOci(docker_config) ==
    LET c1 == SetDefault(docker_config, "architecture", "amd64")
        c2 == SetDefault(c1, "os", "linux")
        c3 == SetDefault(c2, "config", "{}")
        c4 == SetDefault(c3, "rootfs", "{type:layers,diff_ids:[]}")
    IN  SetDefault(c4, "history", "[]")

(***************************************************************************)
(* _parse_image_url.  An image reference is a sequence of characters.      *)
(***************************************************************************)
RefChars == {"a", ".", ":", "/"}

DockerPrefix == <<"d", "o", "c", "k", "e", "r", ":", "/", "/">>
HttpPrefix == <<"h", "t", "t", "p", ":", "/", "/">>
HttpsPrefix == <<"h", "t", "t", "p", "s", ":", "/", "/">>
DefaultRegistry ==
    <<"r", "e", "g", "i", "s", "t", "r", "y", "-", "1", ".", "d", "o", "c", "k", "e", "r", ".", "i", "o">>
LibraryPrefix == <<"l", "i", "b", "r", "a", "r", "y", "/">>
Latest == <<"l", "a", "t", "e", "s", "t">>

\* the references parsed: every string over RefChars up to MaxRefLen, bare
\* and behind 'docker://'
RefStrings ==
    LET S == UNION { [1..n -> RefChars] : n \in 0..MaxRefLen }
    IN  S \cup { DockerPrefix \o r : r \in S }

\* str.startswith(prefix)
StartsWith(str, prefix) ==
    Len(str) >= Len(prefix) /\ SubSeq(str, 1, Len(prefix)) = prefix

\* c in str
In(c, str) == \E i \in 1..Len(str) : str[i] = c

\* str.find(c), counted from 1, with 0 for "not found"
Find(str, c) ==
    LET I == { i \in 1..Len(str) : str[i] = c }
    IN  IF I = {} THEN 0 ELSE CHOOSE i \in I : \A j \in I : i <= j

\* if image_url.startswith('docker://'): image_url = image_url[9:]
StripPrefix(url) ==
    IF StartsWith(url, DockerPrefix)
    THEN SubSeq(url, Len(DockerPrefix) + 1, Len(url)) ELSE url

\* variant of HasTag that splits at any colon
HasTagAnyColon(url) == In(":", url)

\* ':' in image_url and last_colon > last_slash
HasTag(url) == In(":", url) /\ RFind(url, ":") > RFind(url, "/")

\* image_url, tag = image_url.rsplit(':', 1)
SplitTag(url) ==
    IF HasTag(url)
    THEN [image_url |-> SubSeq(url, 1, RFind(url, ":") - 1),
          tag |-> SubSeq(url, RFind(url, ":") + 1, Len(url))]
    ELSE [image_url |-> url, tag |-> Latest]

\* variant of IsRegistryHost that looks for a dot only
IsRegistryHostDotOnly(part) == In(".", part)

\* '.' in parts[0] or ':' in parts[0]
IsRegistryHost(part) == In(".", part) \/ In(":", part)

\* the separation of registry and image name
SplitRegistry(url) ==
    IF In("/", url)
    THEN LET parts0 == SubSeq(url, 1, Find(url, "/") - 1)
             parts1 == SubSeq(url, Find(url, "/") + 1, Len(url))
         IN  IF IsRegistryHost(parts0)
             THEN [registry |-> parts0, image_name |-> parts1]
             ELSE [registry |-> DefaultRegistry,
                   image_name |-> IF ~In("/", url) THEN LibraryPrefix \o url
                                  ELSE url]
    ELSE [registry |-> DefaultRegistry, image_name |-> LibraryPrefix \o url]

\* if not registry.startswith(('http://', 'https://')): prepend https://
WithScheme(registry) ==
    IF StartsWith(registry, HttpPrefix) \/ StartsWith(registry, HttpsPrefix)
    THEN registry ELSE HttpsPrefix \o registry

ParseImageUrl(url) ==
    LET t == SplitTag(StripPrefix(url))
        r == SplitRegistry(t.image_url)
    IN  [registry |-> WithScheme(r.registry), image_name |-> r.image_name,
         tag |-> t.tag]

NoParse == [registry |-> <<>>, image_name |-> <<>>, tag |-> <<>>]

(***************************************************************************)
(* docker_cli, docker_compose_cli and the image cache of proot_runner:     *)
(* the files and processes the commands share.                             *)
(***************************************************************************)
MaxProcs == 2       \* docker_cli processes running at the same time
MaxPids == 2        \* container processes forked in one behaviour
MaxPolls == 2       \* iterations of the polling loop of _run_detached
MaxCommands == 2    \* commands the user issues in one behaviour

\* the container names of the compose file, in file order
Services == << "c1", "c2" >>
Ids == {Services[i] : i \in 1..Len(Services)}
Procs == 1..MaxProcs
Pids == 1..MaxPids

\* one entry of containers.json: status, pid (0 for None) and detached
NoRecord == [status |-> "none", pid |-> 0, detached |-> FALSE]
Created(detach) == [status |-> "created", pid |-> 0, detached |-> detach]
NoContainers == [c \in Ids |-> NoRecord]
\* a container directory: does it exist, does rootfs/ exist in it, and the
\* pid written in container.pid (0: no such file)
NoDir == [exists |-> FALSE, rootfs |-> FALSE, pid_file |-> 0]
\* a docker_cli process slot nobody uses.  Of a process that polls, pid is
\* what container.pid held when it started proot_runner (0: no file); of
\* one that stops a container, the pid it signalled
Idle == [cmd |-> "none", id |-> "none", pc |-> "idle", local |-> NoContainers,
         pid |-> 0, polls |-> 0, flag |-> FALSE, by |-> "none"]
\* what a command returned: its arguments, its result, and whether it ran
\* the download subprocess
NoReturn == [cmd |-> "none", id |-> "none", flag |-> FALSE, result |-> "none",
             downloaded |-> FALSE]
NoCompose == [cmd |-> "none", idx |-> 0, phase |-> "none", detach |-> FALSE,
              child |-> "none"]
NoCache == [archive |-> FALSE, info |-> FALSE, complete |-> FALSE]

VARIABLES
    containers,     \* containers.json: the record of each container id
    dirs,           \* the container directories under the cache directory
    processes,      \* per pid: "none" (never forked), its container, "dead"
    runners,        \* per container: proot_runner --detach still preparing
    procs,          \* the docker_cli processes: command, position, locals
    compose,        \* the docker_compose_cli process
    cache,          \* the image's cache archive, whether it is the whole output
                    \* of a download, and its .info file
    ret,            \* the command that returned in the last step
    issued          \* commands issued by the user so far

cliVars == << containers, dirs, processes, runners, procs, compose, cache,
              ret, issued >>

\* nothing has been run yet
NoCli ==
    /\ containers = NoContainers
    /\ dirs = [c \in Ids |-> NoDir]
    /\ processes = [q \in Pids |-> "none"]
    /\ runners = [c \in Ids |-> 0]
    /\ procs = [p \in Procs |-> Idle]
    /\ compose = NoCompose
    /\ cache = NoCache
    /\ ret = NoReturn
    /\ issued = 0

(***************************************************************************)
(* State of one pull: DockerImageToRootFS.create_rootfs_tar.               *)
(***************************************************************************)
VARIABLES
    image_url,      \* self.image_url
    parsed,         \* registry, image_name, tag returned by _parse_image_url
    reparsed,       \* the same for the reference formatted from parsed
    config_data,    \* _convert_config_blob: the object read from the blob
    oci_config,     \* _convert_config_blob: the object written back
    pc,             \* position in create_rootfs_tar
    android,        \* _is_android_environment()
    architecture,   \* self.architecture
    auth_token,     \* DockerRegistryClient.auth_token ("none" for None)
    log,            \* curl invocations made so far, in order
    manifest,       \* the local variable manifest of _download_image_with_python
    content_type,   \* the local variable content_type
    selected,       \* selected_manifest_descriptor['digest']
    blobs,          \* files under oci/blobs/sha256, by name
    index,          \* index.json: the digest of its single entry
    index_meta,     \* index.json: mediaType and size of its single entry
    layers,         \* the list built by _download_layers
    dl,             \* position of the loop of _download_layers
    fetched,        \* digests fetched by download_blob, in order
    ex,             \* position of the layer loop of _extract_rootfs_with_python
    fs,             \* filesystem effects of the extraction
    applied,        \* per layer processed: did a reader extract it
    sidecar,        \* rootfs/.image_config.json has been written
    error,          \* the exception that ended the pull
    result          \* return value of create_rootfs_tar

VARIABLES
    call_args,      \* arguments of the one function a unit specification calls
    call_result     \* what that call returned and did

unitVars == << call_args, call_result >>

NoArgs == [fn |-> "none"]
NotCalled == [done |-> FALSE]

\* no function is called on its own
NoCall ==
    /\ call_args = NoArgs
    /\ call_result = NotCalled

vars == << image_url, parsed, reparsed, config_data, oci_config, pc, android, architecture, auth_token, log, manifest,
           content_type, selected, blobs, index, index_meta, layers, dl, fetched,
           ex, fs, applied, sidecar, error, result, containers, dirs,
           processes, runners, procs, compose, cache, ret, issued,
           call_args, call_result >>

NoMeta == [mediaType |-> "none", size |-> 0]

NoError == [kind |-> "none", archs |-> <<>>]
Err(kind) == [kind |-> kind, archs |-> <<>>]

\* what no step of a pull changes
envVars == << android, architecture, image_url, parsed, reparsed,
             config_data, oci_config, cliVars, unitVars >>
netVars == << auth_token, log >>
docVars == << manifest, content_type, selected >>
storeVars == << blobs, index, index_meta, layers, dl, fetched >>
rootfsVars == << ex, fs, applied, sidecar >>

Init ==
    /\ image_url = <<>>
    /\ parsed = NoParse
    /\ reparsed = NoParse
    /\ config_data = EmptyObject
    /\ oci_config = EmptyObject
    /\ pc = "check"
    /\ android \in BOOLEAN
    /\ architecture \in Archs
    /\ auth_token = "none"
    /\ log = <<>>
    /\ manifest = NoDoc
    /\ content_type = ""
    /\ selected = NoDigest
    /\ blobs = [x \in {} |-> ErrorBody]
    /\ index = NoDigest
    /\ index_meta = NoMeta
    /\ layers = <<>>
    /\ dl = 0
    /\ fetched = <<>>
    /\ ex = 0
    /\ fs = EmptyFs
    /\ applied = <<>>
    /\ sidecar = FALSE
    /\ error = NoError
    /\ result = "none"
    /\ NoCli
    /\ NoCall

\* the except clause of create_rootfs_tar: log the error, return False
Fail(e) ==
    /\ pc' = "done"
    /\ error' = e
    /\ result' = "False"

\* _check_dependencies
CheckDependencies ==
    /\ pc = "check"
    /\ \E ok \in BOOLEAN :
          IF ok
          THEN pc' = "get_manifest" /\ UNCHANGED << error, result >>
          ELSE pc' = "done" /\ result' = "False" /\ UNCHANGED error
    /\ UNCHANGED << envVars, netVars, docVars, storeVars, rootfsVars >>

\* response bodies: a JSON document, a JSON document after leading noise,
\* nothing but whitespace, and text that holds no JSON
Bodies == {"json", "noisy", "empty", "junk"}

\* get_manifest: strip, refuse an empty body, cut what precedes the first
\* '{' (or '['), json.loads
GetManifestParses(body) == body \in {"json", "noisy"}

\* json.loads(response['body']) of the sub-manifest request
SubManifestParses(body) == body = "json"

\* client.get_manifest()
GetManifest ==
    /\ pc = "get_manifest"
    /\ \E rsp \in Responses :
          LET r == MakeRegistryRequest(auth_token, log, "tag", TRUE, rsp)
          IN  /\ auth_token' = r.auth_token
              /\ log' = r.log
              /\ IF r.raised
                 THEN Fail(Err("http")) /\ UNCHANGED docVars
                 ELSE \E body \in Bodies :
                      IF ~GetManifestParses(body)
                      THEN Fail(Err("body")) /\ UNCHANGED docVars
                      ELSE \E a \in TagResponses :
                              /\ manifest' = a.doc
                              /\ content_type' = a.content_type
                              /\ pc' = "select"
                              /\ UNCHANGED << selected, error, result >>
    /\ UNCHANGED << envVars, storeVars, rootfsVars >>

(***************************************************************************)
(* Manifest-list resolution in _download_image_with_python.                *)
(***************************************************************************)
\* variant of PlatformMatches that does not look at platform.os
PlatformMatchesAnyOs(e, arch) == e.arch = arch

\* the test of the for loop on one descriptor
PlatformMatches(e, arch) ==
    e.arch = arch /\ (e.os = "linux" \/ e.os = "none")

\* the for loop with its break: index of selected_manifest_descriptor, 0 for None
RECURSIVE FindDescriptor(_, _, _)
FindDescriptor(entries, i, arch) ==
    IF i > Len(entries) THEN 0
    ELSE IF PlatformMatches(entries[i], arch) THEN i
    ELSE FindDescriptor(entries, i + 1, arch)

\* variant of AvailableArchs that reports the linux entries only
AvailableArchsLinuxOnly(entries) ==
    LET linux == SelectSeq(entries, LAMBDA e : e.os = "linux")
    IN  [i \in 1..Len(linux) |-> linux[i].arch]

\* available_archs of the ValueError
AvailableArchs(entries) == [i \in 1..Len(entries) |-> entries[i].arch]

SelectManifest ==
    /\ pc = "select"
    /\ IF IsManifestList(content_type)
       THEN LET k == FindDescriptor(manifest.entries, 1, architecture)
            IN  IF k # 0
                THEN /\ selected' = manifest.entries[k].digest
                     /\ pc' = "fetch_sub"
                     /\ UNCHANGED << error, result >>
                ELSE /\ Fail([kind |-> "no_arch",
                              archs |-> AvailableArchs(manifest.entries)])
                     /\ UNCHANGED selected
       ELSE /\ pc' = "save_manifest"
            /\ UNCHANGED << selected, error, result >>
    /\ UNCHANGED << envVars, netVars, manifest, content_type, storeVars,
                    rootfsVars >>

\* client._make_registry_request(manifests/<target_digest>): no headers
FetchSubManifest ==
    /\ pc = "fetch_sub"
    /\ \E rsp \in Responses :
          LET r == MakeRegistryRequest(auth_token, log, selected.hex, FALSE, rsp)
          IN  /\ auth_token' = r.auth_token
              /\ log' = r.log
              /\ IF r.raised
                 THEN Fail(Err("http")) /\ UNCHANGED << manifest, content_type >>
                 ELSE \E body \in Bodies :
                      IF ~SubManifestParses(body)
                      THEN Fail(Err("body"))
                           /\ UNCHANGED << manifest, content_type >>
                      ELSE /\ manifest' = RegistryManifest(selected.hex).doc
                           /\ content_type' =
                                  RegistryManifest(selected.hex).content_type
                           /\ pc' = "save_manifest"
                           /\ UNCHANGED << error, result >>
    /\ UNCHANGED << envVars, selected, storeVars, rootfsVars >>

\* 'docker' in content_type
IsDockerType(ct) == ct \in {DockerManifestV2, DockerManifestList}

\* the rewriting of one layer descriptor's mediaType
ConvertLayerType(t) ==
    CASE t = DockerLayerGzip -> OciLayerGzip
      [] t = DockerLayerTar -> OciLayerTar
      [] OTHER -> t

\* the rewriting of the config descriptor's mediaType
ConvertConfigType(t) == IF t = DockerConfig THEN OciConfig ELSE t

\* the descriptors after _convert_manifest_to_oci: they are shared between
\* the manifest and its shallow copy, so both see the rewritten types
ConvertDescriptors(m, ct) ==
    IF ~IsDockerType(ct) THEN m
    ELSE [m EXCEPT !.layerTypes =
                       [i \in 1..Len(m.layerTypes) |-> ConvertLayerType(m.layerTypes[i])],
                   !.configType = ConvertConfigType(m.configType)]

\* _convert_manifest_to_oci: the value returned
ConvertManifestToOci(m, ct) ==
    IF ~IsDockerType(ct) THEN m
    ELSE [ConvertDescriptors(m, ct) EXCEPT !.mediaType = OciManifest]

\* _save_manifest: the converted manifest is written under the digest of
\* its bytes
SaveManifest ==
    /\ pc = "save_manifest"
    /\ blobs' = Put(blobs, ManifestHex,
                    ManifestBlob(ConvertManifestToOci(manifest, content_type)))
    /\ manifest' = ConvertDescriptors(manifest, content_type)
    /\ pc' = "download"
    /\ UNCHANGED << envVars, netVars, content_type, selected, index, index_meta,
                    layers, dl, fetched, rootfsVars, error, result >>

(***************************************************************************)
(* _download_layers and DockerRegistryClient.download_blob.               *)
(***************************************************************************)
\* the list layers: manifest['layers'] followed by manifest['config']
LayersToDownloadOfList(m) ==
    IF m.kind = "list"
    THEN [i \in 1..Len(m.entries) |-> Digest("l1")]
    ELSE IF Len(m.layers) > 0
    THEN IF m.config # NoDigest THEN Append(m.layers, m.config) ELSE m.layers
    ELSE <<>>
LayersToDownload(m) ==
    IF m.kind = "manifest" /\ Len(m.layers) > 0
    THEN IF m.config # NoDigest THEN Append(m.layers, m.config) ELSE m.layers
    ELSE <<>>

\* entry of _download_layers up to the for loop
DownloadLayersBegin ==
    /\ pc = "download"
    /\ IF LayersToDownload(manifest) = <<>>
       THEN Fail(Err("no_layers")) /\ UNCHANGED << layers, dl >>
       ELSE /\ layers' = LayersToDownload(manifest)
            /\ dl' = 1
            /\ pc' = "download_loop"
            /\ UNCHANGED << error, result >>
    /\ UNCHANGED << envVars, netVars, docVars, blobs, index, index_meta,
                    fetched, rootfsVars >>

\* variant of DownloadNeeded without the existence test
DownloadAlways(store, hex) == TRUE

\* if not os.path.exists(blob_path)
DownloadNeeded(store, hex) == hex \notin DOMAIN store

\* download_blob: curl -o writes the body of the response to the blob
\* path whatever its status; only the exit status of curl is looked at
DownloadBlob(store, hex, status) ==
    Put(store, hex, IF status >= 400 THEN ErrorBody ELSE RegistryBlob(hex))

\* one iteration of the for loop of _download_layers
DownloadLayer ==
    /\ pc = "download_loop"
    /\ dl <= Len(layers)
    /\ LET hex == DigestHash(layers[dl])
       IN  IF DownloadNeeded(blobs, hex)
           THEN \E curlOK \in BOOLEAN, status \in Statuses :
                   /\ log' = Append(log, LogEntry("blob", hex, auth_token, FALSE))
                   /\ fetched' = Append(fetched, hex)
                   /\ IF curlOK
                      THEN /\ blobs' = DownloadBlob(blobs, hex, status)
                           /\ dl' = dl + 1
                           /\ UNCHANGED << pc, error, result >>
                      ELSE Fail(Err("curl")) /\ UNCHANGED << blobs, dl >>
           ELSE /\ dl' = dl + 1
                /\ UNCHANGED << log, fetched, blobs, pc, error, result >>
    /\ UNCHANGED << envVars, auth_token, docVars, index, index_meta, layers,
                    rootfsVars >>

\* end of _download_layers
DownloadLayersEnd ==
    /\ pc = "download_loop"
    /\ dl > Len(layers)
    /\ pc' = "convert_config"
    /\ UNCHANGED << envVars, netVars, docVars, storeVars, rootfsVars, error,
                    result >>

\* _convert_config_blob: rewrite the config blob in place when it parses
ConvertConfigBlob ==
    /\ pc = "convert_config"
    /\ LET hex == DigestHash(manifest.config)
       IN  IF manifest.config # NoDigest /\ hex \in DOMAIN blobs
              /\ blobs[hex].kind = "config"
           THEN blobs' = Put(blobs, hex, ConfigBlob(TRUE))
           ELSE UNCHANGED blobs
    /\ pc' = "oci"
    /\ UNCHANGED << envVars, netVars, docVars, index, index_meta, layers, dl,
                    fetched, rootfsVars, error, result >>

\* oci_content_type of _create_oci_index
OciContentType(ct) ==
    CASE ct = DockerManifestV2 -> OciManifest
      [] ct = DockerManifestList -> OciIndex
      [] OTHER -> ct

\* the length of a blob file; a manifest's bytes grow with its descriptors
BlobSize(b) ==
    CASE b.kind = "manifest" ->
           100 + 10 * Len(b.doc.layers) + (IF b.doc.config = NoDigest THEN 0 ELSE 10)
      [] b.kind = "errbody" -> 20
      [] OTHER -> 50

\* _create_oci_layout and _create_oci_index
CreateOciIndex ==
    /\ pc = "oci"
    /\ index' = Digest(ManifestHex)
    /\ index_meta' =
          [mediaType |-> OciContentType(content_type),
           size |-> IF ManifestHex \in DOMAIN blobs
                    THEN BlobSize(blobs[ManifestHex]) ELSE 0]
    /\ pc' = "extract"
    /\ UNCHANGED << envVars, netVars, docVars, blobs, layers, dl, fetched,
                    rootfsVars, error, result >>

(***************************************************************************)
(* _extract_rootfs_with_python: the layers of the persisted manifest are   *)
(* extracted in order into the rootfs directory.                           *)
(***************************************************************************)
\* manifest.get('layers', []) of the manifest that index.json points to
PersistedLayersReversed ==
    LET l == blobs[DigestHash(index)].doc.layers
    IN  [i \in 1..Len(l) |-> l[Len(l) + 1 - i]]
PersistedLayers == blobs[DigestHash(index)].doc.layers

\* the archive found at a layer's blob path
LayerArchive(hex) ==
    IF blobs[hex].kind = "archive" THEN blobs[hex].arc ELSE NoArchive

\* what a reader can do with an archive of a given format
MayRead(arc, reads) ==
    CASE arc.fmt = "std" -> reads
      [] arc.fmt = "bad" -> ~reads
      [] OTHER -> TRUE

ExtractRootfsBegin ==
    /\ pc = "extract"
    /\ ex' = 1
    /\ pc' = "extract_loop"
    /\ UNCHANGED << envVars, netVars, docVars, storeVars, fs, applied,
                    sidecar, error, result >>

\* one iteration of the layer loop: self._extract_layer(layer_path, ...)
ExtractLayerStep ==
    /\ pc = "extract_loop"
    /\ ex <= Len(PersistedLayers)
    /\ \E pyReads \in BOOLEAN, tarReads \in BOOLEAN, privileged \in BOOLEAN,
          linkOK \in BOOLEAN, failCode \in {1, 2} :
          LET arc == LayerArchive(DigestHash(PersistedLayers[ex]))
              env == [reads |-> tarReads, privileged |-> privileged,
                      linkOK |-> linkOK, failCode |-> failCode]
              r == ExtractLayer(arc, fs, ex = 1, android, pyReads, env)
          IN  /\ MayRead(arc, pyReads)
              /\ MayRead(arc, tarReads)
              /\ fs' = r.fs
              /\ applied' = Append(applied, r.extracted)
              /\ IF r.raised
                 THEN Fail(Err("extract")) /\ UNCHANGED ex
                 ELSE ex' = ex + 1 /\ UNCHANGED << pc, error, result >>
    /\ UNCHANGED << envVars, netVars, docVars, storeVars, sidecar >>

ExtractRootfsEnd ==
    /\ pc = "extract_loop"
    /\ ex > Len(PersistedLayers)
    /\ pc' = "save_config"
    /\ UNCHANGED << envVars, netVars, docVars, storeVars, rootfsVars, error,
                    result >>

\* _save_image_config: index.json -> manifest -> config -> .image_config.json;
\* every exception is logged and swallowed
SaveImageConfig ==
    /\ pc = "save_config"
    /\ LET m == blobs[DigestHash(index)].doc
           hex == DigestHash(m.config)
       IN  sidecar' = (/\ m.config # NoDigest
                       /\ hex \in DOMAIN blobs
                       /\ blobs[hex].kind = "config")
    /\ pc' = "optimize"
    /\ UNCHANGED << envVars, netVars, docVars, storeVars, ex, fs, applied,
                    error, result >>

(***************************************************************************)
(* _optimize_for_proot.  A location that the filesystem map does not hold  *)
(* does not exist; os.path.exists and os.path.isdir follow a symlink.      *)
(* env: mkdirOK and removeOK (the OS lets mkdir / remove succeed),         *)
(* hasMknod (hasattr(os, 'mknod')), openOK (the placeholder can be opened).*)
(***************************************************************************)
pProc == <<"p", "r", "o", "c">>
pDev == <<"d", "e", "v">>
pVar == <<"v", "a", "r">>
pLog == <<"l", "o", "g">>

\* os.path.join of two relative paths
JoinPath(d, n) == d \o <<"/">> \o n

\* essential_dirs, in order
EssentialDirs ==
    << pProc, nSys, pDev, nTmp, nRun,
       JoinPath(pVar, nTmp), JoinPath(pVar, pLog), JoinPath(pVar, nRun) >>

\* the names of essential_devs, in order
EssentialDevs ==
    << <<"n", "u", "l", "l">>, <<"z", "e", "r", "o">>,
       <<"r", "a", "n", "d", "o", "m">>, <<"u", "r", "a", "n", "d", "o", "m">> >>

\* os.path.dirname of a relative path
Dirname(path) ==
    IF RFind(path, "/") = 0 THEN <<>>
    ELSE SubSeq(path, 1, RFind(path, "/") - 1)

\* os.path.join(rootfs_dir, path) for a relative path without '..'
RootfsPath(path) == [root |-> "rootfs", path |-> path]

\* where a symlink entry points: '/n' is a path of the host, 'a' is
\* relative to the directory of the link
LinkTarget(data) ==
    IF data = "/n" THEN [root |-> "host", path |-> nHostN]
    ELSE RootfsPath(nA)

\* os.path.exists
PathExists(f, loc) ==
    /\ loc \in DOMAIN f
    /\ f[loc].kind = "symlink" => LinkTarget(f[loc].data) \in DOMAIN f

\* os.path.isdir
PathIsDir(f, loc) ==
    /\ loc \in DOMAIN f
    /\ \/ f[loc].kind = "dir"
       \/ /\ f[loc].kind = "symlink"
          /\ LinkTarget(f[loc].data) \in DOMAIN f
          /\ f[LinkTarget(f[loc].data)].kind = "dir"

\* os.remove
Remove(f, loc) == [x \in (DOMAIN f) \ {loc} |-> f[x]]

\* os.makedirs(path, exist_ok=True): missing ancestors are made first;
\* mkdir fails on an existing entry, under a non-directory or when the OS
\* refuses, and the failure is raised unless the path is a directory
RECURSIVE Makedirs(_, _, _)
Makedirs(f, path, mkdirOK) ==
    LET head == Dirname(path)
        f1 == IF head # <<>> /\ ~PathExists(f, RootfsPath(head))
              THEN Makedirs(f, head, mkdirOK).fs ELSE f
        can == /\ mkdirOK
               /\ RootfsPath(path) \notin DOMAIN f1
               /\ (head = <<>> \/ PathIsDir(f1, RootfsPath(head)))
    IN  IF can
        THEN [fs |-> Put(f1, RootfsPath(path), FsEntry("dir", "")),
              raised |-> FALSE]
        ELSE [fs |-> f1, raised |-> ~PathIsDir(f1, RootfsPath(path))]

\* variant of ReplaceWithDir that lets a failed removal escape
ReplaceWithDirRaising(f, path, env) ==
    IF env.removeOK
    THEN [fs |-> Makedirs(Remove(f, RootfsPath(path)), path, env.mkdirOK).fs,
          raised |-> FALSE]
    ELSE [fs |-> f, raised |-> TRUE]

\* the inner try: os.remove, os.makedirs; OSError is logged
ReplaceWithDir(f, path, env) ==
    IF env.removeOK
    THEN [fs |-> Makedirs(Remove(f, RootfsPath(path)), path, env.mkdirOK).fs,
          raised |-> FALSE]
    ELSE [fs |-> f, raised |-> FALSE]

\* one iteration of the loop over essential_dirs
EnsureDir(f, path, env) ==
    LET r == Makedirs(f, path, env.mkdirOK)
    IN  IF ~r.raised THEN r
        ELSE IF PathExists(r.fs, RootfsPath(path))
                /\ ~PathIsDir(r.fs, RootfsPath(path))
        THEN ReplaceWithDir(r.fs, path, env)
        ELSE [fs |-> r.fs, raised |-> FALSE]

RECURSIVE EnsureDirs(_, _, _)
EnsureDirs(f, i, env) ==
    IF i > Len(EssentialDirs) THEN [fs |-> f, raised |-> FALSE]
    ELSE LET r == EnsureDir(f, EssentialDirs[i], env)
         IN  IF r.raised THEN r ELSE EnsureDirs(r.fs, i + 1, env)

\* os.mknod(dev_path, 0o666 | os.stat.S_IFCHR, os.makedev(major, minor)):
\* os.stat is a function without an attribute S_IFCHR, so evaluating the
\* arguments raises AttributeError and no node is made
Mknod(f, loc) == [fs |-> f, raised |-> TRUE]

\* one iteration of the loop over essential_devs; OSError and
\* AttributeError are logged
CreateDev(f, name, env) ==
    LET dev_path == RootfsPath(JoinPath(pDev, name))
    IN  IF PathExists(f, dev_path) THEN f
        ELSE IF env.hasMknod THEN Mknod(f, dev_path).fs
        ELSE IF env.openOK /\ PathIsDir(f, RootfsPath(pDev))
        THEN Put(f, dev_path, FsEntry("file", ""))
        ELSE f

RECURSIVE CreateDevs(_, _, _)
CreateDevs(f, i, env) ==
    IF i > Len(EssentialDevs) THEN f
    ELSE CreateDevs(CreateDev(f, EssentialDevs[i], env), i + 1, env)

\* the whole of _optimize_for_proot
OptimizeFs(f, env) ==
    LET d == EnsureDirs(f, 1, env)
    IN  IF d.raised THEN d
        ELSE IF PathExists(d.fs, RootfsPath(pDev))
        THEN [fs |-> CreateDevs(d.fs, 1, env), raised |-> FALSE]
        ELSE d

NoFailure == [mkdirOK |-> TRUE, removeOK |-> TRUE, hasMknod |-> TRUE,
              openOK |-> TRUE]

\* what the platform and the OS may do to a finalization
FinalizeEnvs ==
    { NoFailure,
      [NoFailure EXCEPT !.mkdirOK = FALSE],
      [NoFailure EXCEPT !.removeOK = FALSE],
      [NoFailure EXCEPT !.hasMknod = FALSE],
      [NoFailure EXCEPT !.hasMknod = FALSE, !.openOK = FALSE] }

\* self._optimize_for_proot(rootfs_dir) in create_rootfs_tar
OptimizeForProot ==
    /\ pc = "optimize"
    /\ \E env \in FinalizeEnvs :
          LET r == OptimizeFs(fs, env)
          IN  /\ fs' = r.fs
              /\ IF r.raised
                 THEN Fail(Err("optimize"))
                 ELSE pc' = "archive" /\ UNCHANGED << error, result >>
    /\ UNCHANGED << envVars, netVars, docVars, storeVars, ex, applied,
                    sidecar >>

\* _create_tar_archive, then return True
CreateTarArchive ==
    /\ pc = "archive"
    /\ \E ok \in BOOLEAN :
          IF ok
          THEN pc' = "done" /\ result' = "True" /\ UNCHANGED error
          ELSE Fail(Err("archive"))
    /\ UNCHANGED << envVars, netVars, docVars, storeVars, rootfsVars >>

Next ==
    \/ CheckDependencies
    \/ GetManifest
    \/ SelectManifest
    \/ FetchSubManifest
    \/ SaveManifest
    \/ DownloadLayersBegin
    \/ DownloadLayer
    \/ DownloadLayersEnd
    \/ ConvertConfigBlob
    \/ CreateOciIndex
    \/ ExtractRootfsBegin
    \/ ExtractLayerStep
    \/ ExtractRootfsEnd
    \/ SaveImageConfig
    \/ OptimizeForProot
    \/ CreateTarArchive

Spec == Init /\ [][Next]_vars

TypeOK ==
    /\ pc \in {"check", "get_manifest", "select", "fetch_sub", "save_manifest",
               "download", "download_loop", "convert_config", "oci", "extract",
               "extract_loop", "save_config", "optimize", "archive", "done"}
    /\ result \in {"none", "True", "False"}
    /\ (pc = "done") = (result # "none")

(***************************************************************************)
(* The conversions on their own: each is applied once to an input drawn    *)
(* from its menu, outside of any pull.                                     *)
(***************************************************************************)
NoPull ==
    /\ pc = "check"
    /\ android = FALSE
    /\ architecture = "amd64"
    /\ auth_token = "none"
    /\ log = <<>>
    /\ manifest = NoDoc
    /\ content_type = ""
    /\ selected = NoDigest
    /\ blobs = [x \in {} |-> ErrorBody]
    /\ index = NoDigest
    /\ index_meta = NoMeta
    /\ layers = <<>>
    /\ dl = 0
    /\ fetched = <<>>
    /\ ex = 0
    /\ fs = EmptyFs
    /\ applied = <<>>
    /\ sidecar = FALSE
    /\ error = NoError
    /\ result = "none"

pullVars == << pc, android, architecture, auth_token, log, manifest,
               content_type, selected, blobs, index, index_meta, layers, dl,
               fetched, ex, fs, applied, sidecar, error, result >>

ConfigInit ==
    /\ config_data \in ConfigObjects
    /\ oci_config = EmptyObject
    /\ image_url = <<>>
    /\ parsed = NoParse
    /\ reparsed = NoParse
    /\ NoPull
    /\ NoCli
    /\ NoCall

\* oci_config = self._convert_docker_config_to_oci(config_data)
ConvertConfig ==
    /\ oci_config = EmptyObject
    /\ oci_config' = ConvertDockerConfigToOci(config_data)
    /\ UNCHANGED << config_data, image_url, parsed, reparsed, pullVars,
                   cliVars, unitVars >>

ConfigNext == ConvertConfig

ConfigSpec == ConfigInit /\ [][ConfigNext]_vars

\* '<registry>/<repository>:<tag>' of a parsed triple
FormatReference(p) == p.registry \o <<"/">> \o p.image_name \o <<":">> \o p.tag

ParseInit ==
    /\ image_url \in RefStrings
    /\ parsed = NoParse
    /\ reparsed = NoParse
    /\ config_data = EmptyObject
    /\ oci_config = EmptyObject
    /\ NoPull
    /\ NoCli
    /\ NoCall

\* registry, image_name, tag = self._parse_image_url()
ParseReference ==
    /\ parsed = NoParse
    /\ parsed' = ParseImageUrl(image_url)
    /\ UNCHANGED << image_url, reparsed, config_data, oci_config, pullVars,
                   cliVars, unitVars >>

\* _parse_image_url applied to the reference formatted from its own result
ReparseFormatted ==
    /\ parsed # NoParse
    /\ reparsed = NoParse
    /\ reparsed' = ParseImageUrl(FormatReference(parsed))
    /\ UNCHANGED << image_url, parsed, config_data, oci_config, pullVars,
                   cliVars, unitVars >>

ParseNext == ParseReference \/ ReparseFormatted

ParseSpec == ParseInit /\ [][ParseNext]_vars

(***************************************************************************)
(* _extract_layer_with_tar on its own: one call on a layer archive, over a *)
(* rootfs that is empty or holds an earlier layer.                         *)
(***************************************************************************)
TarArchives == {Archive1, Archive2, Archive3, NoArchive}

TarEnvs == [reads : BOOLEAN, privileged : BOOLEAN, linkOK : BOOLEAN,
            failCode : {1, 2}]

\* the rootfs before the call
BaseTrees == {EmptyFs, SafeExtractTar(Archive1.members, 1, EmptyFs)}

TarInit ==
    /\ call_args \in [fn : {"_extract_layer_with_tar"}, archive : TarArchives,
                      base : BaseTrees, is_first_layer : BOOLEAN,
                      isAndroid : BOOLEAN, env : TarEnvs]
    /\ call_result = NotCalled
    /\ image_url = <<>>
    /\ parsed = NoParse
    /\ reparsed = NoParse
    /\ config_data = EmptyObject
    /\ oci_config = EmptyObject
    /\ NoPull
    /\ NoCli

\* self._extract_layer_with_tar(layer_path, rootfs_dir, is_first_layer)
CallExtractLayerWithTar ==
    /\ call_result = NotCalled
    /\ MayRead(call_args.archive, call_args.env.reads)
    /\ LET r == ExtractLayerWithTar(call_args.archive, call_args.base,
                                    call_args.is_first_layer,
                                    call_args.isAndroid, call_args.env)
       IN  call_result' = [done |-> TRUE, fs |-> r.fs, raised |-> r.raised,
                           runs |-> r.runs]
    /\ UNCHANGED << call_args, image_url, parsed, reparsed, config_data,
                    oci_config, pullVars, cliVars >>

TarNext == CallExtractLayerWithTar

TarSpec == TarInit /\ [][TarNext]_vars

(***************************************************************************)
(* _safe_extract_tar on its own: one call on a layer archive, over a tree  *)
(* that holds an earlier layer and files of the host, on an operating      *)
(* system that refuses some writes.  env.denied are the member names under *)
(* which nothing can be created (PermissionError, whoever tries);          *)
(* env.flaky are the names on which tar.extract meets an I/O error that a  *)
(* second attempt does not meet.                                           *)
(***************************************************************************)
nD == <<"d">>

PyArchive1 == [fmt |-> "std",
               members |-> << Member(nA, "reg", "pa", <<>>),
                              Member(nD, "dir", "", <<>>),
                              Member(nF, "fifo", "", <<>>),
                              Member(nRun, "sym", "a", nA),
                              Member(nB, "reg", "pb", <<>>) >>]
PyArchive2 == [fmt |-> "std",
               members |-> << Member(nH, "lnk", "", nHostN),
                              Member(nG, "lnk", "", nUp),
                              Member(nQ, "lnk", "", nA),
                              Member(nB, "reg", "pb", <<>>) >>]

PyArchives == {Archive1, Archive2, PyArchive1, PyArchive2}

PyEnvs == [denied : SUBSET {nA, nD, nRun}, flaky : SUBSET {nA, nD, nRun}]

\* files of the host, outside the rootfs directory
HostTree ==
    Put(Put(EmptyFs, JoinRootfs(nHostN), FsEntry("file", "host-n")),
        JoinRootfs(nUp), FsEntry("file", "host-u"))

\* the tree before the call: the host's files, and in the rootfs nothing,
\* or an earlier layer in which a is a file, or one in which a is a
\* directory and run a file
PyBaseTrees ==
    { HostTree,
      Put(HostTree, JoinRootfs(nA), FsEntry("file", "0a")),
      Put(Put(HostTree, JoinRootfs(nA), FsEntry("dir", "")),
          JoinRootfs(nRun), FsEntry("file", "0r")) }

IsDirAt(f, loc) == loc \in DOMAIN f /\ f[loc].kind = "dir"

\* what a member of type reg, dir or sym is once it is in the tree
MemberEntry(m) ==
    CASE m.type = "dir" -> FsEntry("dir", "")
      [] m.type = "sym" -> FsEntry("symlink", m.data)
      [] OTHER -> FsEntry("file", m.data)

\* tar.extract(filtered_member, rootfs_dir) at the default errorlevel 1: an
\* OSError is raised when the path is denied, on an I/O error, and when a
\* regular file is to replace a directory; an existing path makes mkdir a
\* no-op, and a symlink that cannot replace a directory is skipped silently
PyTarExtract(f, m, env) ==
    LET loc == JoinRootfs(m.name)
    IN  IF m.name \in env.denied \cup env.flaky
        THEN [fs |-> f, raised |-> TRUE]
        ELSE CASE m.type = "reg" ->
                    IF IsDirAt(f, loc) THEN [fs |-> f, raised |-> TRUE]
                    ELSE [fs |-> Put(f, loc, MemberEntry(m)), raised |-> FALSE]
               [] m.type = "dir" ->
                    IF loc \in DOMAIN f THEN [fs |-> f, raised |-> FALSE]
                    ELSE [fs |-> Put(f, loc, MemberEntry(m)), raised |-> FALSE]
               [] m.type = "sym" ->
                    IF IsDirAt(f, loc) THEN [fs |-> f, raised |-> FALSE]
                    ELSE [fs |-> Put(f, loc, MemberEntry(m)), raised |-> FALSE]
               [] OTHER -> [fs |-> f, raised |-> FALSE]

\* _manual_extract_file: open(target_path, 'wb') and copy; every exception
\* is logged and swallowed
ManualExtractFile(f, m, env) ==
    IF m.name \in env.denied \/ IsDirAt(f, JoinRootfs(m.name)) THEN f
    ELSE Put(f, JoinRootfs(m.name), MemberEntry(m))

\* _manual_create_dir: os.makedirs(target_path, exist_ok=True)
ManualCreateDir(f, m, env) ==
    LET loc == JoinRootfs(m.name)
    IN  IF m.name \in env.denied \/ (loc \in DOMAIN f /\ ~IsDirAt(f, loc))
        THEN f
        ELSE Put(f, loc, MemberEntry(m))

\* _manual_create_symlink: os.remove of an existing path, which a
\* directory refuses, then os.symlink
ManualCreateSymlink(f, m, env) ==
    IF m.name \in env.denied \/ IsDirAt(f, JoinRootfs(m.name)) THEN f
    ELSE Put(f, JoinRootfs(m.name), MemberEntry(m))

\* the except clause of the member loop
ManualFallback(f, m, env) ==
    CASE m.type = "reg" -> ManualExtractFile(f, m, env)
      [] m.type = "dir" -> ManualCreateDir(f, m, env)
      [] m.type = "lnk" -> HandleHardlink(f, m)
      [] m.type = "sym" -> ManualCreateSymlink(f, m, env)
      [] OTHER -> f

\* the member loop of _safe_extract_tar under env.  st.fs is the tree,
\* st.processed the members that passed the filter, st.fallback those the
\* except clause handled, both by position in the archive
RECURSIVE SafeExtractTarUnder(_, _, _, _)
SafeExtractTarUnder(members, i, st, env) ==
    IF i > Len(members) THEN st
    ELSE LET m == members[i]
             seen == [st EXCEPT !.processed = Append(@, i)]
         IN  IF ~ExtractFilter(m)
             THEN SafeExtractTarUnder(members, i + 1, st, env)
             ELSE IF m.type = "lnk"
             THEN SafeExtractTarUnder(members, i + 1,
                      [seen EXCEPT !.fs = HandleHardlink(st.fs, m)], env)
             ELSE LET r == PyTarExtract(st.fs, m, env)
                  IN  IF ~r.raised
                      THEN SafeExtractTarUnder(members, i + 1,
                               [seen EXCEPT !.fs = r.fs], env)
                      ELSE SafeExtractTarUnder(members, i + 1,
                               [seen EXCEPT
                                   !.fs = ManualFallback(st.fs, m, env),
                                   !.fallback = Append(@, i)], env)

PyInit ==
    /\ call_args \in [fn : {"_safe_extract_tar"}, archive : PyArchives,
                      base : PyBaseTrees, env : PyEnvs]
    /\ call_result = NotCalled
    /\ image_url = <<>>
    /\ parsed = NoParse
    /\ reparsed = NoParse
    /\ config_data = EmptyObject
    /\ oci_config = EmptyObject
    /\ NoPull
    /\ NoCli

\* self._safe_extract_tar(tar, rootfs_dir)
CallSafeExtractTar ==
    /\ call_result = NotCalled
    /\ LET r == SafeExtractTarUnder(call_args.archive.members, 1,
                    [fs |-> call_args.base, processed |-> <<>>,
                     fallback |-> <<>>], call_args.env)
       IN  call_result' = [done |-> TRUE, fs |-> r.fs,
                           processed |-> r.processed,
                           fallback |-> r.fallback]
    /\ UNCHANGED << call_args, image_url, parsed, reparsed, config_data,
                    oci_config, pullVars, cliVars >>

PyNext == CallSafeExtractTar

PySpec == PyInit /\ [][PyNext]_vars

(***************************************************************************)
(* The container commands of docker_cli.  A command is a process of its    *)
(* own.  One step of it runs from one wait to the next (the polling sleep  *)
(* of _run_detached, the foreground container, the two seconds after       *)
(* SIGTERM, shutil.rmtree), so the dictionary a command loaded before a    *)
(* wait is the one it saves after it, whatever other processes saved in    *)
(* between.                                                                *)
(***************************************************************************)
\* no command of docker_cli touches the state of the pull pipeline above
otherVars == << image_url, parsed, reparsed, config_data, oci_config,
               pullVars, unitVars >>

\* _is_process_running: os.kill(pid, 0) succeeds
IsProcessRunning(pid) == pid \in Pids /\ processes[pid] \in Ids

FreePids == {q \in Pids : processes[q] = "none"}
NextPid == CHOOSE q \in FreePids : \A r \in FreePids : q <= r

FreeProcs == {p \in Procs : procs[p] = Idle}
FreeProc == CHOOSE p \in FreeProcs : \A r \in FreeProcs : p <= r

\* a docker_cli process as it starts: flag is --detach of run, --force of rm
Launch(cmd, id, flag, by) ==
    [Idle EXCEPT !.cmd = cmd, !.id = id, !.pc = "begin", !.flag = flag,
                 !.by = by]

\* process p, whose locals are me, waits; subprocess.run of a compose
\* process that started it waits with it
Step(p, me) ==
    /\ procs' = [procs EXCEPT ![p] = me]
    /\ ret' = NoReturn
    /\ compose' = IF me.by = "wait"
                  THEN [compose EXCEPT !.child = "running"]
                  ELSE compose

\* main(): sys.exit(0 if success else 1); subprocess.run of the compose
\* process waiting for p sees the exit status
Exit(p, me, outcome) ==
    /\ procs' = [procs EXCEPT ![p] = Idle]
    /\ ret' = [NoReturn EXCEPT !.cmd = me.cmd, !.id = me.id,
                               !.flag = me.flag, !.result = outcome]
    /\ compose' = IF me.by = "wait"
                  THEN [compose EXCEPT !.child = outcome]
                  ELSE compose

\* the record run() keeps in container_info once the container has failed
FailedInfo(detach) == [Created(detach) EXCEPT !.status = "failed"]

\* run(): return None after container_info['status'] = 'failed' is saved
\* with the dictionary run() loaded before the container was started
RunFails(p, me) ==
    /\ containers' = [me.local EXCEPT ![me.id] = FailedInfo(me.flag)]
    /\ Exit(p, me, "fail")

\* run() up to its first wait: the image check, os.makedirs(container_dir),
\* the record saved as 'created'; then proot_runner --detach is started
\* (_run_detached up to the polling loop), or the record is saved as
\* 'running' and the foreground container started
RunBegin(p, me) ==
    /\ me.cmd = "run"
    /\ LET saved == [containers EXCEPT ![me.id] = Created(me.flag)]
           running == [saved EXCEPT ![me.id].status = "running"]
       IN  IF ~cache.archive
           THEN \* self.pull(image_url) raises, see Pull
                /\ Exit(p, me, "fail")
                /\ UNCHANGED << containers, dirs, runners >>
           ELSE IF me.flag
           THEN /\ runners[me.id] < MaxPids
                /\ containers' = saved
                /\ dirs' = [dirs EXCEPT ![me.id].exists = TRUE]
                /\ runners' = [runners EXCEPT ![me.id] = @ + 1]
                /\ Step(p, [me EXCEPT !.pc = "poll", !.local = saved,
                                      !.pid = dirs[me.id].pid_file])
           ELSE /\ containers' = running
                /\ dirs' = [dirs EXCEPT ![me.id].exists = TRUE]
                /\ Step(p, [me EXCEPT !.pc = "fg", !.local = running])
                /\ UNCHANGED runners
    /\ UNCHANGED << processes, cache >>

\* _run_detached: one iteration of the polling loop.  Once container.pid
\* holds a pid, the records are loaded again and saved with status
\* 'running' and that pid; after the last iteration without one, False
Poll(p) ==
    /\ procs[p].pc = "poll"
    /\ LET me == procs[p]
           pid == dirs[me.id].pid_file
       IN  IF pid # 0 /\ containers[me.id] # NoRecord
           THEN /\ containers' = [containers EXCEPT
                                     ![me.id].status = "running",
                                     ![me.id].pid = pid]
                /\ Exit(p, me, "ok")
           ELSE IF pid = 0 /\ me.polls + 1 < MaxPolls
           THEN /\ Step(p, [me EXCEPT !.polls = @ + 1])
                /\ UNCHANGED containers
           ELSE \* no pid, or containers[container_id] raises KeyError
                IF me.cmd = "run"
                THEN RunFails(p, me)
                ELSE Exit(p, me, "fail") /\ UNCHANGED containers
    /\ UNCHANGED << dirs, processes, runners, cache, issued >>
    /\ UNCHANGED otherVars

\* the foreground container ends: run() removes the container directory
\* and the record; start() loads the records again and saves 'exited'
ForegroundEnds(p) ==
    /\ procs[p].pc = "fg"
    /\ \E success \in BOOLEAN :
        LET me == procs[p] IN
        IF me.cmd = "run"
        THEN /\ dirs' = [dirs EXCEPT ![me.id] = NoDir]
             /\ IF success
                THEN /\ containers' = [me.local EXCEPT ![me.id] = NoRecord]
                     /\ Exit(p, me, "ok")
                ELSE RunFails(p, me)
        ELSE /\ UNCHANGED dirs
             /\ IF containers[me.id] # NoRecord
                THEN /\ containers' =
                            [containers EXCEPT ![me.id].status = "exited"]
                     /\ Exit(p, me, IF success THEN "ok" ELSE "fail")
                ELSE /\ Exit(p, me, "fail")
                     /\ UNCHANGED containers
    /\ UNCHANGED << processes, runners, cache, issued >>
    /\ UNCHANGED otherVars

Startable == {"created", "exited", "killed", "interrupted", "failed"}

\* start(): the checks, then _run_detached or the foreground branch
StartBegin(p, me) ==
    /\ me.cmd = "start"
    /\ LET rec == containers[me.id] IN
       IF \/ rec = NoRecord
          \/ rec.status = "running"
          \/ rec.status \notin Startable
          \/ ~dirs[me.id].exists
          \/ ~dirs[me.id].rootfs
       THEN /\ Exit(p, me, "fail")
            /\ UNCHANGED << containers, runners >>
       ELSE IF rec.detached
       THEN /\ runners[me.id] < MaxPids
            /\ runners' = [runners EXCEPT ![me.id] = @ + 1]
            /\ Step(p, [me EXCEPT !.pc = "poll",
                                  !.pid = dirs[me.id].pid_file])
            /\ UNCHANGED containers
       ELSE /\ containers' = [containers EXCEPT ![me.id].status = "running"]
            /\ Step(p, [me EXCEPT !.pc = "fg"])
            /\ UNCHANGED runners
    /\ UNCHANGED << dirs, processes, cache >>

\* stop(): container_info['status'] = status, then _save_containers
MarkStoppedDropsRecord(records, id, status) ==
    [records EXCEPT ![id] = NoRecord]
MarkStopped(records, id, status) ==
    [records EXCEPT ![id].status = status]

\* stop() returns: to main(), or to rm --force, which ignores the result,
\* loads the records again and goes on to delete what it finds
StopReturns(p, me, outcome, saved) ==
    IF me.cmd = "rm"
    THEN IF saved[me.id] = NoRecord
         THEN Exit(p, [me EXCEPT !.flag = TRUE], "ok")
         ELSE Step(p, [me EXCEPT !.pc = "delete", !.flag = TRUE, !.pid = 0,
                                 !.local = saved])
    ELSE Exit(p, me, outcome)

\* stop() up to its first wait: a record without a live process is saved
\* as 'exited'; a live process is sent SIGTERM
StopBegin(p, me) ==
    /\ me.cmd \in {"stop", "rm"}
    /\ LET rec == containers[me.id]
           exited == MarkStopped(containers, me.id, "exited")
       IN  IF rec = NoRecord
           THEN /\ StopReturns(p, me, "fail", containers)
                /\ UNCHANGED << containers, processes >>
           ELSE IF ~IsProcessRunning(rec.pid)
           THEN /\ containers' = exited
                /\ StopReturns(p, me, "ok", exited)
                /\ UNCHANGED processes
           ELSE \/ /\ Step(p, [me EXCEPT !.pc = "term", !.pid = rec.pid,
                                         !.local = containers])
                   /\ UNCHANGED << containers, processes >>
                \/ \* the process ends before os.killpg: ProcessLookupError
                   /\ processes' = [processes EXCEPT ![rec.pid] = "dead"]
                   /\ StopReturns(p, me, "fail", containers)
                   /\ UNCHANGED containers
    /\ UNCHANGED << dirs, runners, cache >>

\* stop(): two seconds after SIGTERM the process is gone ('exited') or is
\* sent SIGKILL ('killed')
StopAfterTerm(p) ==
    /\ procs[p].pc = "term"
    /\ LET me == procs[p]
           exited == MarkStopped(me.local, me.id, "exited")
           killed == MarkStopped(me.local, me.id, "killed")
       IN  IF ~IsProcessRunning(me.pid)
           THEN /\ containers' = exited
                /\ StopReturns(p, me, "ok", exited)
                /\ UNCHANGED processes
           ELSE \/ /\ processes' = [processes EXCEPT ![me.pid] = "dead"]
                   /\ containers' = killed
                   /\ StopReturns(p, me, "ok", killed)
                \/ \* the process ends before os.killpg: ProcessLookupError
                   /\ processes' = [processes EXCEPT ![me.pid] = "dead"]
                   /\ StopReturns(p, me, "fail", containers)
                   /\ UNCHANGED containers
    /\ UNCHANGED << dirs, runners, cache, issued >>
    /\ UNCHANGED otherVars

\* rm(): the status of a record whose process has ended is taken as 'exited'
RmStatus(rec) ==
    IF rec.status = "running" /\ rec.pid # 0 /\ ~IsProcessRunning(rec.pid)
    THEN [rec EXCEPT !.status = "exited"]
    ELSE rec

\* rm() up to its first wait: a running container is refused, or stopped
\* first under --force; any other goes on to shutil.rmtree
RmBegin(p, me) ==
    /\ me.cmd = "rm"
    /\ LET rec == RmStatus(containers[me.id]) IN
       IF containers[me.id] = NoRecord
       THEN /\ Exit(p, me, "fail")
            /\ UNCHANGED << containers, processes >>
       ELSE IF rec.status = "running"
       THEN IF me.flag
            THEN StopBegin(p, me)
            ELSE /\ Exit(p, me, "fail")
                 /\ UNCHANGED << containers, processes >>
       ELSE /\ Step(p, [me EXCEPT !.pc = "delete",
                          !.local = [containers EXCEPT ![me.id] = rec]])
            /\ UNCHANGED << containers, processes >>
    /\ UNCHANGED << dirs, runners, cache >>

\* rm(): shutil.rmtree(container_dir), whose OSError is only logged, then
\* the record is deleted and the dictionary saved
RmDelete(p) ==
    /\ procs[p].pc = "delete"
    /\ \E removed \in BOOLEAN :
        /\ ~removed => dirs[procs[p].id].exists
        /\ dirs' = IF removed THEN [dirs EXCEPT ![procs[p].id] = NoDir]
                   ELSE dirs
    /\ containers' = [procs[p].local EXCEPT ![procs[p].id] = NoRecord]
    /\ Exit(p, procs[p], "ok")
    /\ UNCHANGED << processes, runners, cache, issued >>
    /\ UNCHANGED otherVars

\* the first step of a command
Begin(p, me) ==
    \/ RunBegin(p, me)
    \/ StartBegin(p, me)
    \/ me.cmd = "stop" /\ StopBegin(p, me)
    \/ RmBegin(p, me)

\* the user types a docker_cli command
Issue ==
    \E cmd \in {"run", "start", "stop", "rm"}, id \in Ids, flag \in BOOLEAN :
        /\ issued < MaxCommands
        /\ FreeProcs # {}
        /\ cmd \in {"start", "stop"} => ~flag
        /\ issued' = issued + 1
        /\ Begin(FreeProc, Launch(cmd, id, flag, "user"))
    /\ UNCHANGED otherVars

\* a command compose up -d started with Popen gets to run
BeginDetached(p) ==
    /\ procs[p].pc = "begin"
    /\ Begin(p, procs[p])
    /\ UNCHANGED issued
    /\ UNCHANGED otherVars

\* ps(): a 'running' record whose process has ended becomes 'exited'
PsUpdate(c) ==
    [i \in Ids |-> IF /\ c[i].status = "running"
                      /\ c[i].pid # 0
                      /\ ~IsProcessRunning(c[i].pid)
                   THEN [c[i] EXCEPT !.status = "exited"]
                   ELSE c[i]]

\* the STATUS column ps prints for a container is 'running'
PsListsRunning(id) == PsUpdate(containers)[id].status = "running"

\* ps(): load, update, save, list
Ps ==
    /\ containers' = PsUpdate(containers)
    /\ ret' = [NoReturn EXCEPT !.cmd = "ps", !.result = "ok"]
    /\ UNCHANGED << dirs, processes, runners, procs, compose, cache, issued >>
    /\ UNCHANGED otherVars

\* a container process ends by itself or on a signal
ProcessExits ==
    \E q \in Pids :
        /\ processes[q] \in Ids
        /\ processes' = [processes EXCEPT ![q] = "dead"]
        /\ ret' = NoReturn
        /\ UNCHANGED << containers, dirs, runners, procs, compose, cache,
                        issued >>
    /\ UNCHANGED otherVars

(***************************************************************************)
(* proot_runner: the image cache, and the process _run_detached starts.    *)
(***************************************************************************)
\* _is_image_cached and _load_cache_info both find their file
CacheHit(force) == ~force /\ cache.archive /\ cache.info

\* the cache entry a download that exited with status 0 leaves
Cached == [archive |-> TRUE, info |-> TRUE, complete |-> TRUE]

\* ProotRunner._download_image: a cache hit, or the download subprocess,
\* which writes with tar -czf straight to the cache path.  On exit status 0
\* the archive is whole and the .info file follows; a subprocess that fails
\* once tar has opened its output (partial) leaves a truncated archive, one
\* that fails earlier leaves the cache as it was
DownloadImage(force, exit, partial) ==
    IF CacheHit(force) THEN cache
    ELSE IF exit = 0 THEN Cached
    ELSE IF partial THEN [cache EXCEPT !.archive = TRUE, !.complete = FALSE]
    ELSE cache

\* proot_runner --detach: the rootfs is prepared (downloaded and extracted
\* unless it exists), the container is forked and its pid written to
\* container.pid
RunnerStarts ==
    \E c \in Ids :
        /\ runners[c] > 0
        /\ FreePids # {}
        /\ runners' = [runners EXCEPT ![c] = @ - 1]
        /\ processes' = [processes EXCEPT ![NextPid] = c]
        /\ dirs' = [dirs EXCEPT ![c] = [exists |-> TRUE, rootfs |-> TRUE,
                                        pid_file |-> NextPid]]
        /\ cache' = IF dirs[c].rootfs THEN cache
                    ELSE DownloadImage(FALSE, 0, FALSE)
        /\ ret' = NoReturn
        /\ UNCHANGED << containers, procs, compose, issued >>
    /\ UNCHANGED otherVars

\* proot_runner --detach returns False: no proot, a failed download, a
\* failed extraction
RunnerFails ==
    \E c \in Ids :
        /\ runners[c] > 0
        /\ runners' = [runners EXCEPT ![c] = @ - 1]
        /\ ret' = NoReturn
        /\ UNCHANGED << containers, dirs, processes, procs, compose, cache,
                        issued >>
    /\ UNCHANGED otherVars

\* proot_runner run on an image by hand, with or without --force-download:
\* _prepare_rootfs downloads it
Download ==
    \E force \in BOOLEAN, exit \in {0, 1}, partial \in BOOLEAN :
        /\ issued < MaxCommands
        /\ issued' = issued + 1
        /\ cache' = DownloadImage(force, exit, partial)
        /\ ret' = [NoReturn EXCEPT !.cmd = "download", !.flag = force,
                       !.result = IF exit = 0 \/ CacheHit(force)
                                  THEN "ok" ELSE "fail",
                       !.downloaded = ~CacheHit(force)]
        /\ UNCHANGED << containers, dirs, processes, runners, procs, compose >>
    /\ UNCHANGED otherVars

\* pull(): True on a cache hit; otherwise _download_image is called with
\* the keyword quiet, which it does not take: TypeError, main() exits 1
Pull ==
    \E force \in BOOLEAN :
        /\ issued < MaxCommands
        /\ issued' = issued + 1
        /\ ret' = [NoReturn EXCEPT !.cmd = "pull", !.flag = force,
                       !.result = IF CacheHit(force) THEN "ok" ELSE "fail"]
        /\ UNCHANGED << containers, dirs, processes, runners, procs, compose,
                        cache >>
    /\ UNCHANGED otherVars

\* the image 'images' prints: list_cache reads the url from the .info file
ImagesLists == cache.archive /\ cache.info

\* rmi(): clear_cache removes the archive and the .info file
Rmi ==
    /\ issued < MaxCommands
    /\ issued' = issued + 1
    /\ cache' = NoCache
    /\ ret' = [NoReturn EXCEPT !.cmd = "rmi", !.result = "ok"]
    /\ UNCHANGED << containers, dirs, processes, runners, procs, compose >>
    /\ UNCHANGED otherVars

(***************************************************************************)
(* docker_compose_cli: up and down over the services of the compose file.  *)
(***************************************************************************)
\* the user types docker-compose up [-d] or down
ComposeBegin ==
    \E cmd \in {"up", "down"}, detach \in BOOLEAN :
        /\ issued < MaxCommands
        /\ compose = NoCompose
        /\ cmd = "down" => ~detach
        /\ issued' = issued + 1
        /\ compose' = [cmd |-> cmd, idx |-> 1,
                       phase |-> IF cmd = "up" THEN "run" ELSE "stop",
                       detach |-> detach, child |-> "none"]
        /\ ret' = NoReturn
        /\ UNCHANGED << containers, dirs, processes, runners, procs, cache >>
    /\ UNCHANGED otherVars

\* run_docker_cli_command: Popen for up -d, which does not wait, and
\* subprocess.run(check=True) otherwise
RunDockerCliCommand ==
    /\ compose.cmd # "none"
    /\ compose.child = "none"
    /\ compose.idx <= Len(Services)
    /\ FreeProcs # {}
    /\ IF compose.phase = "run" /\ compose.detach
       THEN /\ procs' = [procs EXCEPT ![FreeProc] =
                            Launch("run", Services[compose.idx], TRUE, "bg")]
            /\ compose' = [compose EXCEPT !.idx = @ + 1]
            /\ ret' = NoReturn
            /\ UNCHANGED << containers, dirs, processes, runners, cache >>
       ELSE Begin(FreeProc, Launch(compose.phase, Services[compose.idx],
                                   FALSE, "wait"))
    /\ UNCHANGED issued
    /\ UNCHANGED otherVars

\* the command compose waited for has exited: sys.exit(1) on a failure,
\* otherwise rm after stop, or the next service
ComposeNext ==
    /\ compose.child \in {"ok", "fail"}
    /\ IF compose.child = "fail"
       THEN /\ compose' = NoCompose
            /\ ret' = [NoReturn EXCEPT !.cmd = compose.cmd,
                                       !.flag = compose.detach,
                                       !.result = "fail"]
       ELSE /\ compose' =
                IF compose.phase = "stop"
                THEN [compose EXCEPT !.phase = "rm", !.child = "none"]
                ELSE [compose EXCEPT !.idx = @ + 1, !.child = "none",
                          !.phase = IF compose.cmd = "up" THEN "run"
                                    ELSE "stop"]
            /\ ret' = NoReturn
    /\ UNCHANGED << containers, dirs, processes, runners, procs, cache,
                    issued >>
    /\ UNCHANGED otherVars

\* cmd_up, cmd_down: the loop over the services is over, exit status 0
ComposeExit ==
    /\ compose.cmd # "none"
    /\ compose.child = "none"
    /\ compose.idx > Len(Services)
    /\ compose' = NoCompose
    /\ ret' = [NoReturn EXCEPT !.cmd = compose.cmd, !.flag = compose.detach,
                               !.result = "ok"]
    /\ UNCHANGED << containers, dirs, processes, runners, procs, cache,
                    issued >>
    /\ UNCHANGED otherVars

CliStep ==
    \E p \in Procs :
        \/ BeginDetached(p)
        \/ Poll(p)
        \/ ForegroundEnds(p)
        \/ StopAfterTerm(p)
        \/ RmDelete(p)

CliInit ==
    /\ image_url = <<>>
    /\ parsed = NoParse
    /\ reparsed = NoParse
    /\ config_data = EmptyObject
    /\ oci_config = EmptyObject
    /\ NoPull
    /\ containers = NoContainers
    /\ dirs = [c \in Ids |-> NoDir]
    /\ processes = [q \in Pids |-> "none"]
    /\ runners = [c \in Ids |-> 0]
    /\ procs = [p \in Procs |-> Idle]
    /\ compose = NoCompose
    /\ cache = Cached
    /\ ret = NoReturn
    /\ issued = 0
    /\ NoCall

CliNext ==
    \/ Issue
    \/ CliStep
    \/ Ps
    \/ ProcessExits
    \/ RunnerStarts
    \/ RunnerFails
    \/ Download
    \/ Pull
    \/ Rmi
    \/ ComposeBegin
    \/ RunDockerCliCommand
    \/ ComposeNext
    \/ ComposeExit

CliSpec == CliInit /\ [][CliNext]_vars

(***************************************************************************)
(* Properties.                                                             *)
(***************************************************************************)
\* C12: the normalized config has all five keys; a key the input lacked
\* has its default ('amd64', 'linux', {}, {type:'layers', diff_ids:[]},
\* []), and every key the input had, among the five or not, keeps its
\* value; no other key appears.
C12_ConfigNormalizationTotal ==
    oci_config # EmptyObject =>
       /\ DOMAIN oci_config = DOMAIN config_data \cup ConfigKeys
       /\ \A k \in DOMAIN config_data : oci_config[k] = config_data[k]
       /\ "architecture" \notin DOMAIN config_data =>
             oci_config["architecture"] = "amd64"
       /\ "os" \notin DOMAIN config_data => oci_config["os"] = "linux"
       /\ "config" \notin DOMAIN config_data => oci_config["config"] = "{}"
       /\ "rootfs" \notin DOMAIN config_data =>
             oci_config["rootfs"] = "{type:layers,diff_ids:[]}"
       /\ "history" \notin DOMAIN config_data => oci_config["history"] = "[]"

\* C12 witness: a config that has os (not 'linux') and a null history but
\* lacks architecture, config and rootfs has been normalized.
C12_Witness ==
    /\ DOMAIN config_data = {"os", "history", "author"}
    /\ config_data["os"] = "windows"
    /\ config_data["history"] = "null"
    /\ DOMAIN oci_config = ConfigKeys \cup {"author"}
    /\ oci_config["os"] = "windows"
    /\ oci_config["architecture"] = "amd64"

Rootfs(name) == [root |-> "rootfs", path |-> name]

\* C4: manifest-list resolution selects the first entry, in list order,
\* whose platform.architecture equals the target and whose platform.os is
\* 'linux' or absent; an entry of another architecture is never selected,
\* and resolution fails for lack of a match only when no entry matches.
C4_FirstMatchSelected ==
    /\ pc = "fetch_sub" =>
          \E k \in 1..Len(manifest.entries) :
             /\ manifest.entries[k].digest = selected
             /\ manifest.entries[k].arch = architecture
             /\ manifest.entries[k].os \in {"linux", "none"}
             /\ \A j \in 1..(k - 1) :
                   \/ manifest.entries[j].arch # architecture
                   \/ manifest.entries[j].os \notin {"linux", "none"}
    /\ error.kind = "no_arch" =>
          \A j \in 1..Len(manifest.entries) :
             \/ manifest.entries[j].arch # architecture
             \/ manifest.entries[j].os \notin {"linux", "none"}

\* C4 witness: the second entry is selected because the first one, of the
\* target architecture, is not a linux entry.
C4_Witness ==
    /\ pc = "fetch_sub"
    /\ Len(manifest.entries) = 2
    /\ manifest.entries[1].arch = architecture
    /\ manifest.entries[1].os = "windows"
    /\ selected = manifest.entries[2].digest

\* C5: when the manifest list being resolved has no entry of the target
\* architecture with os linux or absent, the step ends the pull with
\* result False and an error listing the architecture of every entry, and
\* nothing has been produced: no blob, no index.json, no rootfs content, no
\* config sidecar.
C5_NoMatchAborts ==
    [][ ( /\ pc = "select"
          /\ IsManifestList(content_type)
          /\ \A j \in 1..Len(manifest.entries) :
                \/ manifest.entries[j].arch # architecture
                \/ manifest.entries[j].os \notin {"linux", "none"} )
        => ( /\ pc' = "done"
             /\ result' = "False"
             /\ error'.kind = "no_arch"
             /\ Len(error'.archs) = Len(manifest.entries)
             /\ \A j \in 1..Len(manifest.entries) :
                   error'.archs[j] = manifest.entries[j].arch
             /\ DOMAIN blobs' = {}
             /\ index' = NoDigest
             /\ DOMAIN fs' = {}
             /\ sidecar' = FALSE ) ]_vars

\* C5 witness: a pull for arm64 ended on a two-entry list without an arm64
\* linux entry, one of whose entries is not a linux entry.
C5_Witness ==
    /\ pc = "done"
    /\ error.kind = "no_arch"
    /\ architecture = "arm64"
    /\ error.archs = << "amd64", "none" >>
    /\ result = "False"

\* C6: a token request directly follows a probe; once the client holds a
\* token, every request after the token request that obtained it is a
\* manifest or blob request carrying that token, so no probe or token
\* request is sent again.
C6_TokenAcquiredOnceAndReused ==
    /\ \A i \in 1..Len(log) :
          log[i].kind = "token" => i > 1 /\ log[i - 1].kind = "probe"
    /\ \A i \in 1..Len(log) : \A j \in (i + 1)..Len(log) :
          log[i].auth # "none" =>
             /\ log[j].kind \in {"manifest", "blob"}
             /\ log[j].auth = log[i].auth
    /\ auth_token # "none" =>
          \E k \in 1..Len(log) :
             /\ log[k].kind = "token"
             /\ k < Len(log)
             /\ \A j \in (k + 1)..Len(log) :
                   /\ log[j].kind \in {"manifest", "blob"}
                   /\ log[j].auth = auth_token

\* C6 witness: the first token request failed, the second one, made for
\* the sub-manifest, obtained a token, and a blob was then requested.
C6_Witness ==
    /\ auth_token = "t2"
    /\ Len(log) >= 6
    /\ log[2].kind = "token"
    /\ log[3].auth = "none"
    /\ log[5].kind = "token"
    /\ log[6].auth = "t2"
    /\ log[Len(log)].kind = "blob"

\* C7: within a pull no digest is fetched twice, and a download is issued
\* only for a digest whose blob file does not exist: it creates that file
\* and leaves every existing blob file as it is.
C7_BlobFetchedAtMostOnce ==
    /\ [](\A i, j \in 1..Len(fetched) : i # j => fetched[i] # fetched[j])
    /\ [][ Len(fetched') > Len(fetched) =>
              /\ fetched'[Len(fetched')] \notin DOMAIN blobs
              /\ \A h \in DOMAIN blobs : blobs'[h] = blobs[h] ]_vars

\* C7 witness: the manifest names the same layer digest twice and the loop
\* of _download_layers has handled both with a single fetch.
C7_Witness ==
    /\ pc = "download_loop"
    /\ Len(layers) >= 2
    /\ layers[1] = layers[2]
    /\ dl = 3
    /\ fetched = << DigestHash(layers[1]) >>

\* the regular-file member called name of an archive, as a set
RegMembers(arc, name) ==
    { i \in 1..Len(arc.members) :
         arc.members[i].type = "reg" /\ arc.members[i].name = name }

\* the layers, by position, whose stored archive writes name as a regular file
Writers(name) ==
    { i \in 1..Len(PersistedLayers) :
         RegMembers(LayerArchive(DigestHash(PersistedLayers[i])), name) # {} }

Max(S) == CHOOSE x \in S : \A y \in S : y <= x

\* C1: once every layer has been processed, a path written as a regular
\* file by two layers holds the content of the later one.
C1_LastWriteWins ==
    pc \in {"save_config", "optimize", "archive"} =>
       \A name \in {nA, nB} :
          Cardinality(Writers(name)) >= 2 =>
             LET arc == LayerArchive(DigestHash(PersistedLayers[Max(Writers(name))]))
                 m == arc.members[Max(RegMembers(arc, name))]
             IN  /\ Rootfs(name) \in DOMAIN fs
                 /\ fs[Rootfs(name)].data = m.data

\* C2: no response body of a request answered with a status >= 400 is ever
\* stored as a blob: such a response ends the pull.
C2_FailedRequestAborts ==
    \A h \in DOMAIN blobs : blobs[h].kind # "errbody"

\* C3: no member with an absolute name or a '..' segment and no device or
\* FIFO member has a filesystem effect, and every effect of an extraction
\* lies under the rootfs directory.
C3_UnsafeMembersHaveNoEffect ==
    \A loc \in DOMAIN fs :
       /\ loc.root = "rootfs"
       /\ fs[loc].kind \notin {"fifo", "chr", "blk"}
       /\ \A hex \in LayerHexes :
             \A i \in 1..Len(RegistryArchive(hex).members) :
                LET m == RegistryArchive(hex).members[i]
                IN  (m.type = "reg" /\ (StartsWithSlash(m.name)
                                        \/ HasDotDotSegment(m.name)))
                    => fs[loc].data # m.data

\* C8: _extract_layer returns normally only if a reader extracted the
\* layer; a layer that neither reader extracted ends the pull with a
\* failure.
C8_UnextractedLayerAborts ==
    \A i \in 1..Len(applied) :
       ~applied[i] => (pc = "done" /\ result = "False"
                       /\ error.kind = "extract")

\* C9: no hardlink member becomes a filesystem hardlink; a member whose
\* target is missing creates nothing; a member whose target exists becomes
\* a regular file with the content of the target.
C9_HardlinksFlattened ==
    /\ \A loc \in DOMAIN fs : fs[loc].kind # "hardlink"
    /\ Rootfs(nG) \notin DOMAIN fs
    /\ \A i \in 1..Len(applied) :
          (applied[i] /\ PersistedLayers[i] = Digest("l2")) =>
             /\ Rootfs(nH) \in DOMAIN fs
             /\ fs[Rootfs(nH)].kind = "file"
             /\ fs[Rootfs(nH)].data = "2a"

\* C11: the manifest persisted by _save_manifest has its own mediaType
\* field set to 'application/vnd.oci.image.manifest.v1+json', whatever the
\* content type of the response was.
C11_PersistedManifestIsOci ==
    (ManifestHex \in DOMAIN blobs) =>
       blobs[ManifestHex].doc.mediaType = OciManifest

\* C13: once index.json is written, its entry names an existing blob that
\* is the persisted manifest, with that blob's length as size and that
\* manifest's mediaType as mediaType, and the config digest and every layer
\* digest of the manifest name an existing blob.
C13_OciLayoutConsistent ==
    index # NoDigest =>
       /\ DigestHash(index) \in DOMAIN blobs
       /\ LET b == blobs[DigestHash(index)]
          IN  /\ b.kind = "manifest"
              /\ b.doc = ConvertManifestToOci(manifest, content_type)
              /\ index_meta.size = BlobSize(b)
              /\ index_meta.mediaType = b.doc.mediaType
              /\ b.doc.config # NoDigest =>
                    DigestHash(b.doc.config) \in DOMAIN blobs
              /\ \A i \in 1..Len(b.doc.layers) :
                    DigestHash(b.doc.layers[i]) \in DOMAIN blobs

\* C14: whenever create_rootfs_tar returns True, .image_config.json has
\* been written, after every layer was processed, from the normalized config
\* blob that index.json -> manifest -> config leads to.
C14_SidecarHoldsConfig ==
    result = "True" =>
       /\ sidecar
       /\ ex > Len(PersistedLayers)
       /\ LET m == blobs[DigestHash(index)].doc
          IN  /\ m.config # NoDigest
              /\ DigestHash(m.config) \in DOMAIN blobs
              /\ blobs[DigestHash(m.config)].kind = "config"
              /\ blobs[DigestHash(m.config)].normalized

\* C15: finalization always returns normally: whatever the rootfs holds
\* and whichever of directory creation, file replacement, node creation
\* or placeholder creation fails, the step after _optimize_for_proot is
\* the archive creation, with no error and no result set, and no pull ever
\* ends with an error of the finalization.
C15_FinalizationNeverAborts ==
    /\ [][ pc = "optimize" =>
              (pc' = "archive" /\ error' = error /\ result' = result) ]_vars
    /\ [](error.kind # "optimize")

\* C15 witness: a pull returned True although directory creation failed
\* during finalization: dev and proc are missing and the file tmp, removed
\* to make room for a directory, was not replaced.
C15_Witness ==
    /\ pc = "done"
    /\ result = "True"
    /\ Len(applied) >= 1
    /\ applied[1]
    /\ PersistedLayers[1] = Digest("l1")
    /\ Rootfs(pDev) \notin DOMAIN fs
    /\ Rootfs(pProc) \notin DOMAIN fs
    /\ Rootfs(nTmp) \notin DOMAIN fs
    /\ Rootfs(nA) \in DOMAIN fs

\* C16: a finalization in which no OS call fails leaves each of proc, sys,
\* dev, tmp, run, var/tmp, var/log and var/run a directory of the rootfs,
\* whatever the layers left at these paths.
C16_EssentialDirsExist ==
    [][ ( /\ pc = "optimize"
          /\ pc' = "archive"
          /\ fs' = OptimizeFs(fs, NoFailure).fs )
        => \A i \in 1..Len(EssentialDirs) :
              /\ Rootfs(EssentialDirs[i]) \in DOMAIN fs'
              /\ fs'[Rootfs(EssentialDirs[i])].kind = "dir" ]_vars

\* C17: a finalization in which no OS call fails and that leaves dev a
\* directory leaves each of dev/null, dev/zero, dev/random and dev/urandom
\* in place, as a character device or as an empty regular file.
C17_DeviceNodesOrPlaceholders ==
    [][ ( /\ pc = "optimize"
          /\ pc' = "archive"
          /\ fs' = OptimizeFs(fs, NoFailure).fs
          /\ PathIsDir(fs', Rootfs(pDev)) )
        => \A i \in 1..Len(EssentialDevs) :
              LET loc == Rootfs(JoinPath(pDev, EssentialDevs[i]))
              IN  /\ loc \in DOMAIN fs'
                  /\ \/ fs'[loc].kind = "chr"
                     \/ fs'[loc].kind = "file" /\ fs'[loc].data = "" ]_vars

\* C18: every manifest request of a pull, by tag or by digest, carries the
\* Accept header listing the four manifest media types.
C18_ManifestRequestsCarryAccept ==
    \A i \in 1..Len(log) : log[i].kind = "manifest" => log[i].accept

\* C19: the tag is the text after the last ':' when no '/' follows that
\* colon, and 'latest' otherwise; a first segment holding a ':' and
\* followed by '/' (host:port/name) stays whole in the registry host.
C19_TagOnlyAfterLastSlash ==
    parsed # NoParse =>
       LET s == image_url
           u == StripPrefix(image_url)
           TagColons == { i \in 1..Len(s) :
                            /\ s[i] = ":"
                            /\ \A j \in (i + 1)..Len(s) : s[j] \notin {":", "/"} }
           FirstSlash == { k \in 1..Len(u) :
                             u[k] = "/" /\ \A j \in 1..(k - 1) : u[j] # "/" }
       IN  /\ \A i \in TagColons : parsed.tag = SubSeq(s, i + 1, Len(s))
           /\ TagColons = {} => parsed.tag = Latest
           /\ \A k \in FirstSlash :
                 (\E j \in 1..(k - 1) : u[j] = ":") =>
                    parsed.registry = HttpsPrefix \o SubSeq(u, 1, k - 1)

\* C19 witness: 'a:a/a' (host:port/name) was parsed: tag 'latest', registry
\* 'https://a:a', image name 'a'.
C19_Witness ==
    /\ image_url = <<"a", ":", "a", "/", "a">>
    /\ parsed.tag = Latest
    /\ parsed.registry = HttpsPrefix \o <<"a", ":", "a">>
    /\ parsed.image_name = <<"a">>

\* C20: with u the reference after tag removal, the text before the first
\* '/' of u is the registry host exactly when u has a '/' and that text
\* holds '.' or ':'; otherwise the registry is the default one and the
\* image name is u, or 'library/' + u when u has no '/'; and parsing
\* yields a result for every reference.
C20_RegistryHostDetection ==
    /\ [](parsed # NoParse =>
            LET u == SplitTag(StripPrefix(image_url)).image_url
                FirstSlash == { k \in 1..Len(u) :
                                  u[k] = "/" /\ \A j \in 1..(k - 1) : u[j] # "/" }
            IN  /\ \A k \in FirstSlash :
                      IF \E j \in 1..(k - 1) : u[j] \in {".", ":"}
                      THEN /\ parsed.registry = HttpsPrefix \o SubSeq(u, 1, k - 1)
                           /\ parsed.image_name = SubSeq(u, k + 1, Len(u))
                      ELSE /\ parsed.registry = HttpsPrefix \o DefaultRegistry
                           /\ parsed.image_name = u
                /\ FirstSlash = {} =>
                      /\ parsed.registry = HttpsPrefix \o DefaultRegistry
                      /\ parsed.image_name = LibraryPrefix \o u)
    /\ [][ parsed = NoParse => parsed' # NoParse ]_vars

\* C20 witness: 'a:/a:' was parsed: the first segment 'a:' has no dot but
\* a colon and is the registry host, the image name is 'a', the tag empty.
C20_Witness ==
    /\ image_url = <<"a", ":", "/", "a", ":">>
    /\ parsed.registry = HttpsPrefix \o <<"a", ":">>
    /\ parsed.image_name = <<"a">>
    /\ parsed.tag = <<>>

\* a reference that names its registry and its tag
ExplicitRegistryAndTag(url) ==
    LET u == StripPrefix(url)
    IN  /\ HasTag(u)
        /\ In("/", SplitTag(u).image_url)
        /\ IsRegistryHost(SubSeq(u, 1, Find(u, "/") - 1))

\* C21: for a reference with an explicit registry and tag, parsing the
\* reference formatted from the parsed triple yields the same triple.
C21_ParsingIdempotent ==
    (reparsed # NoParse /\ ExplicitRegistryAndTag(image_url)) =>
       reparsed = parsed

\* process p, which was polling for the pid of command cmd, returns
PollReturns(p, cmd) ==
    /\ procs[p].cmd = cmd
    /\ procs[p].pc = "poll"
    /\ procs'[p] = Idle

\* ps lists as running every container recorded as running whose process
\* is alive
PsListsLiveContainers ==
    \A c \in Ids :
        containers[c].status = "running" /\ IsProcessRunning(containers[c].pid)
            => PsListsRunning(c)

\* C22: when run -d returns success the record of the container has status
\* 'running' and a pid written by a proot_runner started after the run
\* began, and ps lists the container as running while that process lives;
\* when run -d returns failure the record is not left 'running'
C22_DetachedRunRecordsItsProcess ==
    /\ []PsListsLiveContainers
    /\ [][\A p \in Procs :
            PollReturns(p, "run") =>
                LET rec == containers'[procs[p].id] IN
                IF ret'.result = "ok"
                THEN /\ rec.status = "running"
                     /\ rec.pid # 0
                     /\ rec.pid # procs[p].pid
                ELSE rec.status # "running"]_vars

\* C23: when stop returns success the stored status of the container is
\* 'exited' or 'killed' and its record and directory are still there; when
\* stop returns failure containers.json is as it was
C23_StopKeepsTheRecord ==
    [][ret'.cmd = "stop" =>
        IF ret'.result = "ok"
        THEN /\ containers'[ret'.id].status \in {"exited", "killed"}
             /\ containers'[ret'.id] # NoRecord
             /\ dirs' = dirs
        ELSE /\ containers' = containers
             /\ dirs' = dirs]_vars

\* stop has returned success after SIGKILL, for a container another
\* process was starting at the time
C23_Witness ==
    /\ ret.cmd = "stop"
    /\ ret.result = "ok"
    /\ containers[ret.id].status = "killed"
    /\ \E p \in Procs : procs[p].cmd = "run"

\* C24: start goes ahead only on a record whose status is one of created,
\* exited, killed, interrupted, failed and whose container directory and
\* rootfs exist, and refuses any other record without changing it; when
\* start of a detached container has returned success the stored status is
\* 'running', the directory is still there and ps lists the container as
\* running
C24_StartRestartsAStoppedContainer ==
    /\ [](ret.cmd = "start" /\ ret.result = "ok"
              /\ containers[ret.id].detached
            => /\ containers[ret.id].status = "running"
               /\ dirs[ret.id].exists
               /\ PsListsRunning(ret.id))
    /\ [][\A p \in Procs :
            procs[p] = Idle /\ procs'[p].cmd = "start"
                => /\ containers[procs'[p].id].status \in Startable
                   /\ dirs[procs'[p].id].exists
                   /\ dirs[procs'[p].id].rootfs]_vars
    /\ [][ret'.cmd = "start" /\ procs' = procs
              /\ containers[ret'.id].status \notin Startable
            => ret'.result = "fail" /\ containers' = containers]_vars

\* C25: a step in which rm returns success leaves no record under the
\* container's id, so that ps -a does not list it, leaves no persistent
\* container directory, and leaves the records of all other containers as
\* they were
C25_RmRemovesRecordAndDirectory ==
    [][ret'.cmd = "rm" /\ ret'.result = "ok"
          => /\ containers'[ret'.id] = NoRecord
             /\ ~dirs'[ret'.id].exists
             /\ \A c \in Ids \ {ret'.id} : containers'[c] = containers[c]]_vars

\* a container process of this id is alive: one forked by proot_runner
\* --detach, or the foreground container a run or start is waiting for
LiveContainer(id) ==
    \/ \E q \in Pids : processes[q] = id
    \/ \E p \in Procs : procs[p].pc = "fg" /\ procs[p].id = id

\* C26: rm never deletes the record or the directory of a container whose
\* process is alive.  Without --force, rm of a running container returns
\* failure and changes neither containers.json nor the directories; when
\* rm returns success, having deleted the record, the container has no
\* live process, so that rm leaves no live process without a record
C26_RmSparesLiveContainers ==
    /\ [][ret'.cmd = "rm" /\ ~ret'.flag /\ LiveContainer(ret'.id)
            /\ containers[ret'.id].status = "running"
          => /\ ret'.result = "fail"
             /\ containers' = containers
             /\ dirs' = dirs]_vars
    /\ [](ret.cmd = "rm" /\ ret.result = "ok" => ~LiveContainer(ret.id))

\* C27: the life of the image in the cache.  A pull of an image that is
\* not cached runs the download subprocess and returns success exactly when
\* that has left the image cached; an image that is listed by images stays
\* listed until rmi; after rmi neither the archive nor the .info file
\* exists; a pull of a cached image without --force downloads nothing
C27_ImageCacheLifecycle ==
    /\ [][ret'.cmd = "pull" /\ ~cache.archive
            => /\ ret'.downloaded
               /\ ret'.result = "ok" <=> cache'.archive /\ cache'.info]_vars
    /\ [][ImagesLists /\ ~ImagesLists' => ret'.cmd = "rmi"]_vars
    /\ [][ret'.cmd = "rmi" => cache' = NoCache /\ ~ImagesLists']_vars
    /\ [][ret'.cmd = "pull" /\ CacheHit(ret'.flag)
            => /\ ret'.result = "ok"
               /\ ~ret'.downloaded
               /\ cache' = cache]_vars

\* C28: in the state in which compose up -d has exited with status 0,
\* every service of the compose file has a container record with status
\* 'running', and a ps issued at that moment lists it as running
C28_UpDetachedLeavesServicesRunning ==
    ret.cmd = "up" /\ ret.flag /\ ret.result = "ok"
        => \A i \in 1..Len(Services) :
              /\ containers[Services[i]].status = "running"
              /\ PsListsRunning(Services[i])

\* compose down goes from stop to rm of the same service only after the
\* stop has exited 0, and to the next service, one at a time, only after
\* the rm has exited 0
DownKeepsOrder ==
    /\ compose.phase = "stop" /\ compose'.phase = "rm"
          => compose.child = "ok" /\ compose'.idx = compose.idx
    /\ compose'.idx # compose.idx
          => /\ compose'.idx = compose.idx + 1
             /\ compose.phase = "rm" /\ compose.child = "ok"
             /\ compose'.phase = "stop"

\* the command compose down was waiting for is the one of its phase, on
\* the service it has reached
DownWaitsForItsCommand ==
    compose.child \notin {"ok", "fail"} /\ compose'.child \in {"ok", "fail"}
        => ret'.cmd = compose.phase /\ ret'.id = Services[compose.idx]

\* C29: compose down takes the services in file order and issues rm for
\* a service only after its stop has completed; when down exits 0 no
\* service of the compose file has a container record left; when a stop
\* or rm has failed, down exits 1 and issues no further command
C29_DownStopsThenRemovesInOrder ==
    /\ [][compose.cmd = "down" /\ compose'.cmd = "down"
            => DownKeepsOrder /\ DownWaitsForItsCommand]_vars
    /\ [](ret.cmd = "down" /\ ret.result = "ok"
            => \A i \in 1..Len(Services) : containers[Services[i]] = NoRecord)
    /\ [][compose.cmd = "down" /\ compose.child = "fail" /\ compose' # compose
            => /\ compose' = NoCompose
               /\ ret'.cmd = "down" /\ ret'.result = "fail"]_vars
    /\ [][ret'.cmd = "down" /\ ret'.result = "ok" /\ compose.cmd = "down"
            => compose.idx > Len(Services)]_vars

\* the docker_cli command that takes this step is working on container id
ActsOn(id) ==
    \/ ret'.id = id
    \/ \E p \in Procs : procs'[p] # procs[p] /\ id \in {procs[p].id, procs'[p].id}

\* C30: no record is lost to interleaved load-modify-save cycles: a save
\* of containers.json by a run, start, stop or rm changes the record of
\* the container that command works on and leaves every other record, as
\* another process last wrote it, in place
C30_SavesKeepOtherRecords ==
    [][\A id \in Ids :
          containers'[id] # containers[id] => ret'.cmd = "ps" \/ ActsOn(id)]_vars

\* C31: whenever _run_detached returns success, for run or for start, the
\* pid it stores in the record is not the pid container.pid already held
\* when that call started its proot_runner
C31_RecordedPidIsFresh ==
    [][\A p \in Procs :
          procs[p].pc = "poll" /\ procs'[p] = Idle /\ ret'.result = "ok"
              => /\ containers'[procs[p].id].pid # 0
                 /\ containers'[procs[p].id].pid # procs[p].pid]_vars

\* the layers list of the manifest file index.json points to
LayersOnDisk == blobs[DigestHash(index)].doc.layers

\* this step is a call _extract_layer(layer_path of entry k, rootfs_dir,
\* first) that adds one entry to the layers processed so far
ExtractsEntry(k, first) ==
    \E pyReads \in BOOLEAN, tarReads \in BOOLEAN, privileged \in BOOLEAN,
       linkOK \in BOOLEAN, failCode \in {1, 2} :
       LET arc == LayerArchive(DigestHash(LayersOnDisk[k]))
           env == [reads |-> tarReads, privileged |-> privileged,
                   linkOK |-> linkOK, failCode |-> failCode]
           r == ExtractLayer(arc, fs, first, android, pyReads, env)
       IN  /\ MayRead(arc, pyReads)
           /\ MayRead(arc, tarReads)
           /\ fs' = r.fs
           /\ applied' = Append(applied, r.extracted)

\* C32: layers are applied in ascending manifest order, one at a time.
\* The k-th call of _extract_layer is for the k-th entry of the persisted
\* manifest's layers, with is_first_layer true for the first entry only;
\* the rootfs changes in no other step of the extraction; once the loop is
\* left every entry has been processed exactly once; and the extraction
\* begins only when the blob of every entry and of the config is stored
C32_LayersAppliedInOrder ==
    /\ [][applied' # applied \/ (fs' # fs /\ pc \in {"extract", "extract_loop"})
            => /\ pc = "extract_loop"
               /\ Len(applied) < Len(LayersOnDisk)
               /\ ExtractsEntry(Len(applied) + 1, Len(applied) = 0)]_vars
    /\ [](pc \in {"save_config", "optimize", "archive"}
            => Len(applied) = Len(LayersOnDisk))
    /\ [](pc = "extract_loop"
            => /\ dl > Len(layers)
               /\ \A i \in 1..Len(LayersOnDisk) :
                     /\ DigestHash(LayersOnDisk[i]) \in DOMAIN blobs
                     /\ \E j \in 1..Len(layers) : layers[j] = LayersOnDisk[i])

\* both layers of a two-layer image have been extracted, the second onto
\* the first
C32_Witness ==
    /\ pc = "save_config"
    /\ Len(LayersOnDisk) = MaxLayers
    /\ LayersOnDisk[1] # LayersOnDisk[2]
    /\ applied = << TRUE, TRUE >>

\* the document fetched by digest for the selected platform is itself a
\* manifest list
NestedList ==
    /\ selected # NoDigest
    /\ pc \notin {"select", "fetch_sub"}
    /\ manifest = RegistryManifest(selected.hex).doc
    /\ manifest.kind = "list"

\* C33: manifest-list resolution goes one level deep.  Once the document
\* fetched for the selected platform is itself a manifest list, no further
\* request is sent to the registry, no layer is extracted, and the pull
\* ends, at its next step but one, with create_rootfs_tar returning False
C33_NestedListFailsThePull ==
    /\ [](NestedList
            => /\ pc \in {"save_manifest", "download", "done"}
               /\ pc = "done" => result = "False"
               /\ applied = <<>> /\ fs = EmptyFs /\ fetched = <<>>)
    /\ [][NestedList
            => /\ log' = log
               /\ pc = "download" => pc' = "done" /\ result' = "False"]_vars

\* the pull of an image whose list entry for the platform is a nested
\* manifest list has failed
C33_Witness ==
    /\ NestedList
    /\ pc = "done"
    /\ result = "False"
    /\ error.kind = "no_layers"

\* the last tar command of the call, and whether a command is the
\* permissive one
LastRun == call_result.runs[Len(call_result.runs)]
IsPermissive(run) == "--skip-old-files" \in run.flags

\* C34: in a call of _extract_layer_with_tar the permissive command is run
\* first and alone for the first layer on Android, and otherwise only
\* after the standard command has exited non-zero, which it then always
\* is; when the permissive command was run its exit status decides: 0 and
\* 2 let the call return, any other status raises; when the standard
\* command exited 0 the call returns
C34_PermissiveExitStatusDecides ==
    call_result.done =>
        LET runs == call_result.runs
            direct == call_args.isAndroid /\ call_args.is_first_layer
        IN  /\ Len(runs) \in {1, 2}
            /\ direct <=> IsPermissive(runs[1])
            /\ Len(runs) = 2 <=> ~direct /\ runs[1].rc # 0
            /\ Len(runs) = 2 => IsPermissive(runs[2]) /\ ~IsPermissive(runs[1])
            /\ IF IsPermissive(LastRun)
               THEN call_result.raised <=> LastRun.rc \notin {0, 2}
               ELSE LastRun.rc = 0 /\ ~call_result.raised

\* the standard command failed and the permissive one ended with the
\* partial-success status 2: the call returned
C34_Witness ==
    /\ call_result.done
    /\ Len(call_result.runs) = 2
    /\ LastRun.rc = 2
    /\ ~call_result.raised

\* the positions of the members of the called archive that pass the
\* extraction filter, in archive order
FilteredPositions ==
    LET ms == call_args.archive.members
        RECURSIVE From(_)
        From(i) == IF i > Len(ms) THEN <<>>
                   ELSE IF ExtractFilter(ms[i]) THEN << i >> \o From(i + 1)
                   ELSE From(i + 1)
    IN  From(1)

\* C35: an extraction error on a member never aborts the layer.  After a
\* call of _safe_extract_tar every member that passes the filter has been
\* processed, in archive order, and every regular file, directory or
\* symlink member whose extraction raised is in the tree as the manual
\* fallback for its type recreates it
C35_ManualFallbackRecreatesMember ==
    call_result.done =>
        LET ms == call_args.archive.members
        IN  /\ call_result.processed = FilteredPositions
            /\ \A k \in 1..Len(call_result.fallback) :
                  LET m == ms[call_result.fallback[k]]
                      loc == JoinRootfs(m.name)
                  IN  m.type \in {"reg", "dir", "sym"}
                         => /\ loc \in DOMAIN call_result.fs
                            /\ call_result.fs[loc] = MemberEntry(m)

\* the contents of the files of the host that lie outside the rootfs
HostData == { HostTree[loc].data : loc \in DOMAIN HostTree }

\* C39: hardlink flattening is confined to the rootfs.  After a call of
\* _safe_extract_tar no path inside the rootfs holds the content of a file
\* of the host, whatever the link target names of the hardlink members
C39_HardlinkCopiesStayInRootfs ==
    call_result.done =>
        \A loc \in DOMAIN call_result.fs :
            loc.root = "rootfs" => call_result.fs[loc].data \notin HostData

\* the digests of the layers of the pulled manifest
LayerHashes == { DigestHash(manifest.layers[i]) : i \in 1..Len(manifest.layers) }

\* C36: during a pull the blob store only grows, except for config
\* normalization.  No step removes a blob; a step that changes the content
\* of an existing blob is _convert_config_blob, the blob is the one of the
\* manifest's config digest and its new content is the normalized config;
\* layer blobs and the manifest blob are changed by no step
C36_BlobStoreOnlyGrows ==
    [][ /\ DOMAIN blobs \subseteq DOMAIN blobs'
        /\ \A h \in DOMAIN blobs :
              blobs'[h] # blobs[h]
                 => /\ pc = "convert_config"
                    /\ h = DigestHash(manifest.config)
                    /\ blobs'[h] = ConfigBlob(TRUE)
                    /\ h # ManifestHex
                    /\ h \notin LayerHashes ]_vars

\* C36 witness: the pull has normalized the config blob in place, next to
\* the manifest blob and the blobs of at least two layers
C36_Witness ==
    /\ pc = "oci"
    /\ manifest.config # NoDigest
    /\ DigestHash(manifest.config) \in DOMAIN blobs
    /\ blobs[DigestHash(manifest.config)] = ConfigBlob(TRUE)
    /\ ManifestHex \in DOMAIN blobs
    /\ Cardinality(LayerHashes) >= 2
    /\ \A h \in LayerHashes :
          h \in DOMAIN blobs /\ blobs[h] = RegistryBlob(h)

\* this step is the first one of a command run --name id that gets past the
\* image check: run() saves its record and starts the container
RunStarts(id) ==
    \E p \in Procs :
        /\ procs[p].pc \in {"idle", "begin"}
        /\ procs'[p].cmd = "run"
        /\ procs'[p].id = id
        /\ procs'[p].pc \in {"poll", "fg"}

\* C37: a container id identifies at most one container.  run --name N
\* issued while containers.json holds a record with id N, in any status,
\* leaves that record with its pid, and its data directory, as they are
C37_RunKeepsExistingRecord ==
    [][\A id \in Ids :
          RunStarts(id) /\ containers[id] # NoRecord
              => /\ containers'[id] = containers[id]
                 /\ dirs'[id] = dirs[id]]_vars

\* C38: the .info file is a commit marker of the image cache.  When
\* _download_image returns the cache path without downloading, the archive
\* is the whole output of a download that exited successfully; and no
\* download, failed or not, forced or not, leaves the marker next to an
\* archive that is missing or incomplete
C38_InfoMarksACompleteArchive ==
    /\ [](cache.info => cache.archive /\ cache.complete)
    /\ [][ret'.cmd = "download" /\ ~ret'.downloaded /\ ret'.result = "ok"
             => cache'.archive /\ cache'.complete]_vars

\* C10: whenever create_rootfs_tar returns False, no .image_config.json
\* has been written into the rootfs.
C10_FailedPullLeavesNoSidecar ==
    result = "False" => ~sidecar

====
